---- MODULE Spec2Model ----
(***************************************************************************)
(* go-ebakus: the system precompiled contract (stake, unstake, claim,      *)
(* vote, unvote, electEnable) over the witness/stake store, as a state     *)
(* machine with one action per system-contract command, translated from    *)
(* core/vm/contracts.go; and the delegate election and the in-turn signer  *)
(* lookup of the DPOS engine and its verification of headers, translated   *)
(* from consensus/dpos/dpos.go.                                            *)
(***************************************************************************)
EXTENDS Integers, Sequences, FiniteSets, TLC

VARIABLES
    witnesses,    \* Witnesses table: address -> [Stake, Flags]
    staked,       \* Staked table: owner -> Amount
    claimable,    \* Claimable table: <<owner, timestamp>> -> [Amount, Timestamp]
    delegations,  \* Delegations table: set of <<from, witness>>
    systemStake,  \* raw key ebk:global:systemStake: <<>> when absent, <<v>> when set
    balance,      \* native balances in wei: address -> Nat
    now,          \* evm.Time, the time of the block being applied
    number,       \* number of the block being applied
    last,         \* the system-contract call being applied and what it returned
    config,       \* DPOS.config: Period, DelegateCount, BonusDelegateCount, TurnBlockCount
    keccak,       \* which hash function of the family Keccak256Hash stands for
    chain,        \* the headers of the local chain: a set of header records
    clock,        \* time.Now().Unix()
    eval,         \* the call of the DPOS engine being made and what it returned
    worker,       \* the block producer: where it is in its cycle, and its environment
    txs,          \* the TransactionsByVirtualDifficultyAndNonce of the cycle
    tx,           \* a Transaction: its work nonce and its cached difficulty
    emitted       \* history: the transactions Peek returned, and what removed each

contractVars ==
    <<witnesses, staked, claimable, delegations, systemStake, balance, now, number, last>>
engineVars == <<config, keccak, chain, clock>>
consensusVars == <<engineVars, eval>>
producerVars == <<worker, txs, tx, emitted>>
vars == <<contractVars, consensusVars, producerVars>>

-----------------------------------------------------------------------------
(* Program constants *)

maxClaimableEntries == 5
unstakeVestingPeriod == 60 * 60 * 24 * 3
valueDecimalPoints == 4
ElectEnabledFlag == 1
PrecompliledSystemContract == 257      \* common.BytesToAddress([]byte{1, 1})

(* Bounds of the model *)

\* Decimals of the native unit.  The chain has 18; the factor 10^(18-4) does not
\* fit 32-bit integers, so the model keeps the 4 stake decimals and fewer
\* native ones.  The division balance / precisionFactor keeps its remainder.
NativeDecimals == 5
MaxAmount == 2          \* stake/unstake amounts are drawn from 0..MaxAmount
MaxBlocks == 2          \* blocks applied after genesis
MaxFillBlocks == 5      \* blocks applied after genesis when filling the claimables
GenesisTime == 126      \* time of the first block
\* Repeated votes naming one witness twice raise its stake without limit; calls
\* that would take a witness above this stake are left out.
MaxWitnessStake == 3
MaxHeaderTime == 2      \* header times of the election are drawn from 0..MaxHeaderTime
MaxClock == 4           \* the wall clock of the header verification runs from 0 to MaxClock
MaxChain == 2           \* headers accepted after the genesis header
\* Bytes of a hash.  The chain has 32 (common.HashLength); the sampler of the
\* bonus delegate runs past the end of a shorter hash the same way.
HashLength == 1
MaxDelegates == 3        \* delegates of an array the diff is taken of
MaxRandom == 8           \* the largest max the sampler is called with

precisionFactor == 10 ^ (NativeDecimals - valueDecimalPoints)

\* The externally owned accounts that send transactions.
Accounts == {1, 2}
\* The address passed to SystemContractSetupDB: the genesis witness.
GenesisWitness == 1
Addresses == Accounts \cup {PrecompliledSystemContract}

\* Genesis allocation in wei: whole stake units plus a remainder below one
\* unit for the accounts, 1 wei for the precompiled contract address.
GenesisBalance ==
    [a \in Addresses |->
        IF a = 1 THEN 3 * precisionFactor + 7
        ELSE IF a = 2 THEN 1 * precisionFactor
        ELSE 1]

Amounts == 0 .. MaxAmount
SmallAmounts == 0 .. 1
\* Address lists a vote can carry.
AddressLists == {<<>>, <<1>>, <<2>>, <<1, 2>>, <<2, 2>>}

\* How far a block's time may be ahead of its parent's.
TimeSteps == {1, unstakeVestingPeriod - 1}

-----------------------------------------------------------------------------
(* Errors (the Go error variables) *)

Nil == "nil"
errSystemContractError == "errSystemContractError"
errStakeMalformed == "errStakeMalformed"
errStakeNotEnoughBalance == "errStakeNotEnoughBalance"
errUnstakeMalformed == "errUnstakeMalformed"
errUnstakeTooManyClaimable == "errUnstakeTooManyClaimable"
errUnstakeNotEnoughStakedAmount == "errUnstakeNotEnoughStakedAmount"
errVoteMalformed == "errVoteMalformed"
errVoteAddressIsNotWitness == "errVoteAddressIsNotWitness"
errElectEnableMalformed == "errElectEnableMalformed"
ErrInsufficientBalance == "ErrInsufficientBalance"

-----------------------------------------------------------------------------
(* The store: tables are functions from primary id to row *)

InsertObj(table, id, row) ==
    [k \in DOMAIN table \cup {id} |-> IF k = id THEN row ELSE table[k]]

DeleteObj(table, id) ==
    [k \in DOMAIN table \ {id} |-> table[k]]

\* The eight little-endian bytes of a timestamp (GetClaimableId).  Timestamps of
\* the model are below 2^31, so bytes 5..8 are zero.
TimestampBytes(ts) ==
    [i \in 1..8 |-> IF i <= 4 THEN (ts \div (256 ^ (i - 1))) % 256 ELSE 0]

\* Byte-wise order of two ids of one owner: the order of the timestamp bytes.
BytesLess(a, b) ==
    \E i \in 1..8 : a[i] < b[i] /\ \A j \in 1..(i - 1) : a[j] = b[j]

ClaimableIdLess(x, y) ==
    \/ x[1] < y[1]
    \/ x[1] = y[1] /\ BytesLess(TimestampBytes(x[2]), TimestampBytes(y[2]))

GetClaimableId(from, timestamp) == <<from, timestamp>>

RECURSIVE SortIds(_)
\* The ids of a set in ascending id order.
SortIds(ids) ==
    IF ids = {} THEN <<>>
    ELSE LET m == CHOOSE x \in ids : \A y \in ids \ {x} : ClaimableIdLess(x, y)
         IN <<m>> \o SortIds(ids \ {m})

Reverse(s) == [i \in 1..Len(s) |-> s[Len(s) + 1 - i]]

\* Select(ClaimableTable, "Id LIKE <from>"): the caller's rows in id order.
SelectClaimable(C, from) == SortIds({id \in DOMAIN C : id[1] = from})

\* Select(ClaimableTable, "Id LIKE <from>", "Id DESC").
SelectClaimableDesc(C, from) == Reverse(SelectClaimable(C, from))

RECURSIVE SortAddrs(_)
SortAddrs(as) ==
    IF as = {} THEN <<>>
    ELSE LET m == CHOOSE x \in as : \A y \in as : x <= y
         IN <<m>> \o SortAddrs(as \ {m})

\* Select(DelegationTable, "Id LIKE <from>"): witnesses of the caller's rows in id order.
SelectDelegations(D, from) == SortAddrs({d[2] : d \in {x \in D : x[1] = from}})

AddressesToDelegationId(from, witness) == <<from, witness>>

\* db.Get(SystemStakeDBKey) read the way stake and VirtualCapacity read it.
SystemStaked(ss) == IF ss = <<>> THEN 0 ELSE ss[1]

\* core.CanTransfer and core.Transfer on the native balances.
CanTransfer(bal, from, wei) == bal[from] >= wei

\* The transfer that credits the receiver and leaves the sender's balance.
TransferCreditOnly(bal, from, to, wei) == [bal EXCEPT ![to] = @ + wei]

Transfer(bal, from, to, wei) ==
    IF from = to THEN bal
    ELSE [bal EXCEPT ![from] = @ - wei, ![to] = @ + wei]

-----------------------------------------------------------------------------
\* The state a call works on, as one record.
State ==
    [witnesses |-> witnesses, staked |-> staked, claimable |-> claimable,
     delegations |-> delegations, systemStake |-> systemStake, balance |-> balance]

Result(s, err) == [s |-> s, err |-> err, transferred |-> 0, claimed |-> 0]

-----------------------------------------------------------------------------
(* vote and unvote, the helpers shared by stake, unstake, vote and unvote *)

\* One iteration of the loop of vote(): look the witness up, add amount to
\* its stake, upsert the delegation row.
voteAddress(s, from, address, amount) ==
    IF address \notin DOMAIN s.witnesses
    THEN Result(s, errVoteAddressIsNotWitness)
    ELSE LET witness == s.witnesses[address]
             updated == [witness EXCEPT !.Stake = witness.Stake + amount]
         IN Result([s EXCEPT
                       !.witnesses = InsertObj(@, address, updated),
                       !.delegations = @ \cup {AddressesToDelegationId(from, address)}],
                   Nil)

RECURSIVE vote(_, _, _, _)
\* vote(db, from, addresses, amount): stops at the first error, keeping what
\* the earlier iterations wrote.
vote(s, from, addresses, amount) ==
    IF addresses = <<>> THEN Result(s, Nil)
    ELSE LET r == voteAddress(s, from, Head(addresses), amount)
         IN IF r.err # Nil THEN r ELSE vote(r.s, from, Tail(addresses), amount)

\* The witness's stake left as it is.
unvoteWitnessKeepStake(s, witnessAddress, amount) ==
    IF witnessAddress \notin DOMAIN s.witnesses
    THEN Result(s, errSystemContractError)
    ELSE Result(s, Nil)

\* One iteration of the loop of unvote(): take amount off the witness's stake.
unvoteWitness(s, witnessAddress, amount) ==
    IF witnessAddress \notin DOMAIN s.witnesses
    THEN Result(s, errSystemContractError)
    ELSE LET witness == s.witnesses[witnessAddress]
         IN IF witness.Stake < amount
            THEN Result(s, errSystemContractError)
            ELSE Result([s EXCEPT !.witnesses =
                            InsertObj(@, witnessAddress,
                                      [witness EXCEPT !.Stake = witness.Stake - amount])],
                        Nil)

RECURSIVE unvoteLoop(_, _, _)
unvoteLoop(s, addresses, amount) ==
    IF addresses = <<>> THEN Result(s, Nil)
    ELSE LET r == unvoteWitness(s, Head(addresses), amount)
         IN IF r.err # Nil THEN r ELSE unvoteLoop(r.s, Tail(addresses), amount)

\* The end of unvote() that returns no witness to vote for again.
unvoteDeleteForgets(r, from, delegationsAddresses) ==
    IF r.err # Nil
    THEN [s |-> r.s, err |-> r.err, addresses |-> <<>>]
    ELSE [s |-> [r.s EXCEPT !.delegations = {d \in @ : d[1] # from}],
          err |-> Nil, addresses |-> <<>>]

\* The end of unvote(): after the loop r, the caller's delegation rows are
\* deleted and the witnesses they named are returned.
unvoteDelete(r, from, delegationsAddresses) ==
    IF r.err # Nil
    THEN [s |-> r.s, err |-> r.err, addresses |-> <<>>]
    ELSE [s |-> [r.s EXCEPT !.delegations = {d \in @ : d[1] # from}],
          err |-> Nil, addresses |-> delegationsAddresses]

\* unvote(db, from, amount): returns the witnesses the caller had delegated to.
unvote(s, from, amount) ==
    LET delegationsAddresses == SelectDelegations(s.delegations, from)
    IN unvoteDelete(unvoteLoop(s, delegationsAddresses, amount), from, delegationsAddresses)

-----------------------------------------------------------------------------
(* claim *)

\* The test with < in place of <=.
claimMaturedStrict(entry, time) == entry.Timestamp < time

\* The test of claim()'s loop: the entry has matured.
claimMatured(entry, time) == entry.Timestamp <= time

RECURSIVE SumAmount(_, _)
SumAmount(C, ids) ==
    IF ids = {} THEN 0
    ELSE LET id == CHOOSE x \in ids : TRUE
         IN C[id].Amount + SumAmount(C, ids \ {id})

claim(s, from, time) ==
    LET claimablesToBeDeleted ==
            {id \in DOMAIN s.claimable : id[1] = from /\ claimMatured(s.claimable[id], time)}
        claimableAmount == SumAmount(s.claimable, claimablesToBeDeleted)
        deleted == [s EXCEPT !.claimable =
                       [id \in DOMAIN @ \ claimablesToBeDeleted |-> @[id]]]
        claimableAmountWei == claimableAmount * precisionFactor
    IN IF claimableAmount <= 0 THEN Result(deleted, Nil)
       ELSE IF ~CanTransfer(deleted.balance, PrecompliledSystemContract, claimableAmountWei)
       THEN Result(deleted, ErrInsufficientBalance)
       ELSE [s |-> [deleted EXCEPT !.balance =
                       Transfer(@, PrecompliledSystemContract, from, claimableAmountWei)],
             err |-> Nil, transferred |-> 0, claimed |-> claimableAmountWei]

-----------------------------------------------------------------------------
(* stake *)

RECURSIVE stakeClaimablesLoop(_, _, _, _, _)
\* The loop of stake() over the caller's claimables in descending id order:
\* a row that fits the remaining amount is consumed whole (marked for
\* deletion), a larger one is decremented in place and ends the loop.
stakeClaimablesLoop(C, ids, amount, claimableAmount, toBeDeleted) ==
    IF ids = <<>>
    THEN [claimable |-> C, claimableAmount |-> claimableAmount, toBeDeleted |-> toBeDeleted]
    ELSE LET id == Head(ids)
             entry == C[id]
             whole == amount - claimableAmount >= entry.Amount
             C2 == IF whole THEN C
                   ELSE InsertObj(C, id,
                            [entry EXCEPT !.Amount = entry.Amount - (amount - claimableAmount)])
             got == IF whole THEN claimableAmount + entry.Amount
                    ELSE claimableAmount + (amount - claimableAmount)
             del == IF whole THEN toBeDeleted \cup {id} ELSE toBeDeleted
         IN IF got = amount
            THEN [claimable |-> C2, claimableAmount |-> got, toBeDeleted |-> del]
            ELSE stakeClaimablesLoop(C2, Tail(ids), amount, got, del)

\* The balance test always passing.
stakeHasEnoughBalanceAlways(amountToBeTransfered, balanceWei) == TRUE

\* hasEnoughBalance: the residual against the caller's balance in stake units.
stakeHasEnoughBalance(amountToBeTransfered, balanceWei) ==
    amountToBeTransfered <= balanceWei \div precisionFactor

\* The amount left as first assigned, the credit not taken off.
stakeAmountToBeTransferedNoCredit(amount, claimableAmount) == amount

\* amountToBeTransfered: what the caller's claimables do not cover.
stakeAmountToBeTransfered(amount, claimableAmount) == amount - claimableAmount

\* stake() writing the amount without adding what the scalar held.
stakeSystemStakedOverwrite(ss, amount) == <<amount>>

\* The new value of the system stake scalar written by stake().
stakeSystemStaked(ss, amount) == <<amount + SystemStaked(ss)>>

\* The guard left out.
stakeAmountAccepted(amount) == FALSE

\* The guard at the head of stake().
stakeAmountRefused(amount) == amount <= 0

\* stake() after its unvote u: vote again at the new stake, write the Staked
\* row, move the residual to the system contract.
stakeVote(u, from, newAmount, amountToBeTransferedWei) ==
    IF u.err # Nil THEN Result(u.s, errSystemContractError)
    ELSE LET v == vote(u.s, from, u.addresses, newAmount)
             w == [v.s EXCEPT !.staked = InsertObj(@, from, newAmount)]
         IN IF v.err # Nil THEN Result(v.s, errSystemContractError)
            ELSE IF ~CanTransfer(w.balance, from, amountToBeTransferedWei)
            THEN Result(w, ErrInsufficientBalance)
            ELSE [s |-> [w EXCEPT !.balance =
                            Transfer(@, from, PrecompliledSystemContract,
                                     amountToBeTransferedWei)],
                  err |-> Nil, transferred |-> amountToBeTransferedWei, claimed |-> 0]

\* The tail of stake(): unvote at the old stake, then the rest.
stakeCommit(s, from, amount, amountToBeTransfered) ==
    LET found == from \in DOMAIN s.staked
        oldAmount == IF found THEN s.staked[from] ELSE 0
        newAmount == IF found THEN s.staked[from] + amount ELSE amount
    IN stakeVote(unvote(s, from, oldAmount), from, newAmount,
                 amountToBeTransfered * precisionFactor)

\* stake() after its loop c over the claimables: the balance test, the
\* deletion of the consumed rows, the system stake scalar.
stakeCredited(s, from, amount, c) ==
    LET amountToBeTransfered == stakeAmountToBeTransfered(amount, c.claimableAmount)
        updated == [s EXCEPT !.claimable = c.claimable]
        deleted == [updated EXCEPT !.claimable =
                       [id \in DOMAIN @ \ c.toBeDeleted |-> @[id]]]
        counted == [deleted EXCEPT !.systemStake = stakeSystemStaked(@, amount)]
    IN IF ~stakeHasEnoughBalance(amountToBeTransfered, s.balance[from])
       THEN Result(updated, errStakeNotEnoughBalance)
       ELSE stakeCommit(counted, from, amount, amountToBeTransfered)

stake(s, from, amount) ==
    IF stakeAmountRefused(amount) THEN Result(s, errSystemContractError)
    ELSE stakeCredited(s, from, amount,
             stakeClaimablesLoop(s.claimable, SelectClaimableDesc(s.claimable, from),
                                 amount, 0, {}))

-----------------------------------------------------------------------------
(* unstake *)

RECURSIVE unstakeCheckLoop(_, _, _)
\* The loop of unstake() over the caller's claimables: count them, refuse an
\* entry with the id of the new one, refuse at maxClaimableEntries.
unstakeCheckLoop(ids, newClaimableEntryId, countClaimableEntries) ==
    IF ids = <<>> THEN Nil
    ELSE IF newClaimableEntryId = Head(ids) THEN errSystemContractError
    ELSE IF countClaimableEntries + 1 >= maxClaimableEntries THEN errUnstakeTooManyClaimable
    ELSE unstakeCheckLoop(Tail(ids), newClaimableEntryId, countClaimableEntries + 1)

\* The count compared with > instead of >=: a sixth entry gets through.
unstakeCheckClaimablesOffByOne(C, from, newClaimableEntryId) ==
    unstakeCheckLoop(SelectClaimable(C, from), newClaimableEntryId, -1)

unstakeCheckClaimables(C, from, newClaimableEntryId) ==
    unstakeCheckLoop(SelectClaimable(C, from), newClaimableEntryId, 0)

\* The time at which the tokens of an unstake become claimable.
unstakeTimestamp(time) == time + unstakeVestingPeriod

\* The row written back even when nothing is left.
unstakeStakedKeepRow(S, from, amount) == InsertObj(S, from, S[from] - amount)

\* The Staked table after taking amount off the caller's row.
unstakeStaked(S, from, amount) ==
    IF amount = S[from] THEN DeleteObj(S, from)
    ELSE InsertObj(S, from, S[from] - amount)

\* The new value of the system stake scalar written by unstake().
unstakeSystemStaked(systemStakedOut, amount) == <<systemStakedOut - amount>>

\* unstake() after its unvote u: vote again at the new stake, take the
\* amount off the system stake scalar.
unstakeVote(u, from, newStake, amount) ==
    IF u.err # Nil THEN Result(u.s, errSystemContractError)
    ELSE LET v == vote(u.s, from, u.addresses, newStake)
         IN IF v.err # Nil THEN Result(v.s, errSystemContractError)
            ELSE IF v.s.systemStake = <<>> THEN Result(v.s, errSystemContractError)
            ELSE IF v.s.systemStake[1] < amount THEN Result(v.s, errSystemContractError)
            ELSE Result([v.s EXCEPT !.systemStake = unstakeSystemStaked(@[1], amount)], Nil)

unstake(s, from, amount, time) ==
    LET timestamp == unstakeTimestamp(time)
        newClaimableEntryId == GetClaimableId(from, timestamp)
        refused == unstakeCheckClaimables(s.claimable, from, newClaimableEntryId)
    IN IF refused # Nil THEN Result(s, refused)
       ELSE IF from \notin DOMAIN s.staked THEN Result(s, errSystemContractError)
       ELSE IF amount > s.staked[from] THEN Result(s, errUnstakeNotEnoughStakedAmount)
       ELSE LET oldStake == s.staked[from]
                newStake == IF amount = oldStake THEN 0 ELSE oldStake - amount
                a == [s EXCEPT
                        !.staked = unstakeStaked(@, from, amount),
                        !.claimable = InsertObj(@, newClaimableEntryId,
                                          [Amount |-> amount, Timestamp |-> timestamp])]
            IN unstakeVote(unvote(a, from, oldStake), from, newStake, amount)

-----------------------------------------------------------------------------
(* vote, unvote, electEnable as commands *)

\* The error check after a call of vote() or unvote() by a command: whatever
\* the helper returned, the command returns the system contract error.
systemContractChecked(r) ==
    IF r.err # Nil THEN Result(r.s, errSystemContractError) ELSE Result(r.s, Nil)

\* systemContract.vote after its unvote u.
systemContractVoteNew(u, from, addresses, amount) ==
    IF u.err # Nil THEN Result(u.s, errSystemContractError)
    ELSE systemContractChecked(vote(u.s, from, addresses, amount))

systemContractVote(s, from, addresses) ==
    IF from \notin DOMAIN s.staked THEN Result(s, errSystemContractError)
    ELSE systemContractVoteNew(unvote(s, from, s.staked[from]), from, addresses,
                               s.staked[from])

systemContractUnvote(s, from) ==
    IF from \notin DOMAIN s.staked THEN Result(s, errSystemContractError)
    ELSE systemContractChecked(unvote(s, from, s.staked[from]))

\* The row written afresh, whether or not one was found.
electEnableFreshRow(s, from, enable) ==
    Result([s EXCEPT !.witnesses =
               InsertObj(@, from, [Stake |-> 0,
                                   Flags |-> IF enable THEN ElectEnabledFlag ELSE 0])],
           Nil)

electEnable(s, from, enable) ==
    LET witness == IF from \in DOMAIN s.witnesses THEN s.witnesses[from]
                   ELSE [Stake |-> 0, Flags |-> 0]
        bit == witness.Flags % 2
        flags == IF enable THEN witness.Flags - bit + ElectEnabledFlag
                 ELSE witness.Flags - bit
    IN Result([s EXCEPT !.witnesses = InsertObj(@, from, [witness EXCEPT !.Flags = flags])],
              Nil)

-----------------------------------------------------------------------------
(* The dispatcher and the call that encloses it *)

\* systemContract.Run: decode the arguments of the command (decoded is FALSE
\* when UnpackWithArguments fails), then run it.  A stake first claims for the
\* caller.
\* The stake command after the claim c that precedes it.
RunStake(c, from, arg) ==
    IF c.err # Nil THEN c
    ELSE [stake(c.s, from, arg) EXCEPT !.claimed = c.claimed]

Run(s, from, cmd, decoded, arg, time) ==
    CASE cmd = "stake" ->
            IF ~decoded THEN Result(s, errStakeMalformed)
            ELSE RunStake(claim(s, from, time), from, arg)
      [] cmd = "unstake" ->
            IF ~decoded THEN Result(s, errUnstakeMalformed)
            ELSE unstake(s, from, arg, time)
      [] cmd = "claim" -> claim(s, from, time)
      [] cmd = "vote" ->
            IF ~decoded THEN Result(s, errVoteMalformed)
            ELSE systemContractVote(s, from, arg)
      [] cmd = "unvote" -> systemContractUnvote(s, from)
      [] cmd = "electEnable" ->
            IF ~decoded THEN Result(s, errElectEnableMalformed)
            ELSE electEnable(s, from, arg)
      [] OTHER -> Result(s, errSystemContractError)

\* The call of the precompile by the VM: a sub-snapshot of the store and of the
\* account state is taken at entry, and a failed call is reset to it.
RevertToSnapshot(s, r) == IF r.err # Nil THEN [r EXCEPT !.s = s] ELSE r

Call(s, from, cmd, decoded, arg, time) ==
    RevertToSnapshot(s, Run(s, from, cmd, decoded, arg, time))

-----------------------------------------------------------------------------
(* Delegate election: DelegateVotingGetDelegates, uniformRandom, GetDelegates *)

\* A row of the Witnesses table as the iterator yields it.
WitnessRow(W, a) == [Id |-> a, Stake |-> W[a].Stake, Flags |-> W[a].Flags]

\* The order of the index on Stake read backwards: the higher stake first,
\* equal stakes by descending id.
StakeDescBefore(W, a, b) ==
    \/ W[a].Stake > W[b].Stake
    \/ W[a].Stake = W[b].Stake /\ a > b

RECURSIVE SelectStakeDesc(_, _)
\* Select(WitnessesTable, nil, "Stake DESC"): the rows of the addresses as.
SelectStakeDesc(W, as) ==
    IF as = {} THEN <<>>
    ELSE LET m == CHOOSE x \in as : \A y \in as \ {x} : StakeDescBefore(W, x, y)
         IN <<WitnessRow(W, m)>> \o SelectStakeDesc(W, as \ {m})

RECURSIVE DelegateVotingLoop(_, _, _)
\* The loop of DelegateVotingGetDelegates over the rows still to be read:
\* rows without the elect-enabled flag are skipped, i counts the rest.
DelegateVotingLoop(rows, i, maxWitnesses) ==
    IF rows = <<>> \/ ~(i < maxWitnesses) THEN <<>>
    ELSE IF Head(rows).Flags % 2 = 0
    THEN DelegateVotingLoop(Tail(rows), i, maxWitnesses)
    ELSE <<Head(rows)>> \o DelegateVotingLoop(Tail(rows), i + 1, maxWitnesses)

\* The loop taking rows whatever their flags.
DelegateVotingGetDelegatesAnyFlags(W, maxWitnesses) ==
    LET rows == SelectStakeDesc(W, DOMAIN W)
    IN SubSeq(rows, 1, IF Len(rows) < maxWitnesses THEN Len(rows) ELSE maxWitnesses)

DelegateVotingGetDelegates(W, maxWitnesses) ==
    DelegateVotingLoop(SelectStakeDesc(W, DOMAIN W), 0, maxWitnesses)

RECURSIVE Len64(_)
\* bits.Len64: the number of bits needed to write x.
Len64(x) == IF x = 0 THEN 0 ELSE 1 + Len64(x \div 2)

\* The bytes the hash function is made of, and the hash of a slot number: one
\* function of the slot for each value of keccak.
KeccakBytes == <<0, 255, 170, 219, 36, 1>>
Keccak256Hash(k, slot) ==
    [i \in 1..HashLength |-> KeccakBytes[((slot + k + i) % Len(KeccakBytes)) + 1]]

\* Bit n of the hash, the bytes taken round and round, the low bit of a byte first.
HashBit(hash, n) == (hash[((n \div 8) % HashLength) + 1] \div (2 ^ (n % 8))) % 2

RECURSIVE HashWindow(_, _, _)
\* The inner loop of uniformRandom: bits startBit .. startBit+bitsRequired-1.
HashWindow(hash, startBit, bitsRequired) ==
    IF bitsRequired = 0 THEN 0
    ELSE HashBit(hash, startBit) + 2 * HashWindow(hash, startBit + 1, bitsRequired - 1)

RECURSIVE uniformRandomLoop(_, _, _, _)
\* The outer loop of uniformRandom: the first window below max, or the last
\* one modulo max once startBit is past the end of the hash.
uniformRandomLoop(max, hash, bitsRequired, startBit) ==
    IF HashWindow(hash, startBit, bitsRequired) < max
    THEN HashWindow(hash, startBit, bitsRequired)
    ELSE IF startBit \div 8 >= HashLength
    THEN HashWindow(hash, startBit, bitsRequired) % max
    ELSE uniformRandomLoop(max, hash, bitsRequired, startBit + 1)

\* The sampler that takes a window up to max itself.
uniformRandomInclusive(max, hash) == uniformRandomLoop(max + 1, hash, Len64(max - 1), 0)

uniformRandom(max, hash) == uniformRandomLoop(max, hash, Len64(max - 1), 0)

\* What a call of the engine gives back: a value, or a run-time panic.
Returned(v) == [panic |-> FALSE, value |-> v]
Panicked == [panic |-> TRUE, value |-> <<>>]

\* The slot taken from the number of the header.
GetBonusSlotOfNumber(header, turnBlockCount) == (header.Number + 1) \div turnBlockCount

\* The slot that seeds the draw of the bonus delegate.
GetBonusSlot(header, turnBlockCount) == (header.Time + 1) \div turnBlockCount

\* The bonus delegate appended without making room for it.
GetBonusDelegateNoRoom(header, delegates, maxWitnesses, turnBlockCount, k) ==
    IF maxWitnesses = 0 THEN Panicked
    ELSE IF turnBlockCount = 0 THEN Panicked
    ELSE LET bonusCandidateDelegates == SubSeq(delegates, maxWitnesses + 1, Len(delegates))
             rand == uniformRandom(Len(bonusCandidateDelegates),
                                   Keccak256Hash(k, (header.Time + 1) \div turnBlockCount))
         IN Returned(SubSeq(delegates, 1, maxWitnesses)
                        \o <<bonusCandidateDelegates[rand + 1]>>)

\* The bonus branch of GetDelegates: the last place of the array is drawn
\* from the candidates from place maxWitnesses on.  maxWitnesses - 1 wraps
\* round for maxWitnesses = 0 and the slice expression panics; the division
\* by a zero turnBlockCount panics.
GetBonusDelegate(header, delegates, maxWitnesses, turnBlockCount, k) ==
    IF maxWitnesses = 0 THEN Panicked
    ELSE IF turnBlockCount = 0 THEN Panicked
    ELSE LET bonusCandidateDelegates == SubSeq(delegates, maxWitnesses, Len(delegates))
             slot == GetBonusSlot(header, turnBlockCount)
             rand == uniformRandom(Len(bonusCandidateDelegates), Keccak256Hash(k, slot))
         IN Returned(SubSeq(delegates, 1, maxWitnesses - 1)
                        \o <<bonusCandidateDelegates[rand + 1]>>)

\* GetDelegates after the rows are loaded.
GetDelegatesLoaded(header, delegates, maxWitnesses, turnBlockCount, k) ==
    IF Len(delegates) > maxWitnesses
    THEN GetBonusDelegate(header, delegates, maxWitnesses, turnBlockCount, k)
    ELSE Returned(delegates)

\* maxWitnessesToLoad.
GetDelegatesLoad(maxWitnesses, maxBonusWitnesses) ==
    IF maxBonusWitnesses > 0 THEN maxWitnesses + maxBonusWitnesses ELSE maxWitnesses

GetDelegates(header, W, maxWitnesses, maxBonusWitnesses, turnBlockCount, k) ==
    GetDelegatesLoaded(header,
        DelegateVotingGetDelegates(W, GetDelegatesLoad(maxWitnesses, maxBonusWitnesses)),
        maxWitnesses, turnBlockCount, k)

\* A slot is a float64 in the engine: here the fraction num/den.
Slot(num, den) == [num |-> num, den |-> den]

\* The index taken from the slot number without the division by the turn length.
SignerIndexNoTurn(cfg, slot) ==
    (slot.num \div slot.den) % cfg.DelegateCount

\* int(slot / float64(TurnBlockCount)) % int(DelegateCount).
SignerIndex(cfg, slot) ==
    (slot.num \div (slot.den * cfg.TurnBlockCount)) % cfg.DelegateCount

\* getSignerAtSlot after its call of GetDelegates.
getSignerOf(cfg, delegates, slot) ==
    IF delegates.panic THEN Panicked
    ELSE IF cfg.DelegateCount = 0 \/ cfg.TurnBlockCount = 0 THEN Returned(0)
    ELSE IF SignerIndex(cfg, slot) < Len(delegates.value)
    THEN Returned(delegates.value[SignerIndex(cfg, slot) + 1].Id)
    ELSE Returned(0)

getSignerAtSlot(cfg, header, W, slot, k) ==
    getSignerOf(cfg,
        GetDelegates(header, W, cfg.DelegateCount, cfg.BonusDelegateCount,
                     cfg.TurnBlockCount, k),
        slot)

-----------------------------------------------------------------------------
(* Verification of headers: verifyHeader, ecrecover, verifySeal *)

ErrFutureBlock == "ErrFutureBlock"
ErrUnknownAncestor == "ErrUnknownAncestor"
ErrInvalidTimestamp == "ErrInvalidTimestamp"
errUnauthorized == "errUnauthorized"
errMissingSignature == "errMissingSignature"
errEbakusStateAt == "Verify seal failed to get ebakus state"

\* A header: its number, time and parent hash, and what its signature
\* recovers to (Signed is FALSE when the signature is shorter than 65 bytes).
NoHash == <<>>
GenesisHeader ==
    [Number |-> 0, Time |-> 0, ParentHash |-> NoHash, Signed |-> FALSE, Signer |-> 0]

\* Header.Hash(): the hash of the encoded header, signature included; two
\* headers have the same hash only when all their fields agree.
Hash(h) == <<h.Number, h.Time, h.ParentHash, h.Signed, h.Signer>>

\* chain.GetHeader(hash, number): the headers stored under hash and number
\* (none, or one).
GetHeader(store, hash, num) == {h \in store : Hash(h) = hash /\ h.Number = num}

\* blockchain.GetHeaderByHash(hash).
GetHeaderByHash(store, hash) == {h \in store : Hash(h) = hash}

\* The test of the parent's time without the period.
verifyTimestampNoPeriod(cfg, parent, header) ==
    IF parent.Time > header.Time THEN ErrInvalidTimestamp ELSE Nil

\* The test of the header's time against its parent's.
verifyTimestamp(cfg, parent, header) ==
    IF parent.Time + cfg.Period > header.Time THEN ErrInvalidTimestamp ELSE Nil

\* verifyHeader after getParent.
verifyParent(cfg, parents, header) ==
    IF parents = {} THEN ErrUnknownAncestor
    ELSE verifyTimestamp(cfg, CHOOSE p \in parents : TRUE, header)

verifyHeader(cfg, store, header, unixNow) ==
    IF header.Time > unixNow THEN ErrFutureBlock
    ELSE IF header.Number = 0 THEN Nil
    ELSE verifyParent(cfg, GetHeader(store, header.ParentHash, header.Number - 1), header)

\* ecrecover: the address the signature of the header recovers to.
ecrecover(header) ==
    IF ~header.Signed THEN [signer |-> 0, err |-> errMissingSignature]
    ELSE [signer |-> header.Signer, err |-> Nil]

\* The comparison left out.
verifySignerAny(signer, blockSigner) ==
    IF signer.panic THEN "panic"
    ELSE IF blockSigner.err # Nil THEN blockSigner.err
    ELSE Nil

\* verifySeal after getSignerAtSlot: recover the signer of the block and
\* compare.
verifySigner(signer, blockSigner) ==
    IF signer.panic THEN "panic"
    ELSE IF blockSigner.err # Nil THEN blockSigner.err
    ELSE IF blockSigner.signer # signer.value THEN errUnauthorized
    ELSE Nil

\* verifySeal once the parent's header is at hand.  W is the witness table of
\* the state at the parent.
verifySealAt(cfg, parentHeaders, W, header, k) ==
    IF parentHeaders = {} THEN errEbakusStateAt
    ELSE verifySigner(getSignerAtSlot(cfg, CHOOSE p \in parentHeaders : TRUE, W,
                                      Slot(header.Time, cfg.Period), k),
                      ecrecover(header))

verifySeal(cfg, store, W, header, k) ==
    IF header.Number = 0 THEN Nil
    ELSE verifySealAt(cfg, GetHeaderByHash(store, header.ParentHash), W, header, k)

\* The verification of a header of a block to be imported: VerifyHeader, and
\* when it passes VerifyBlock, which verifies the seal.
VerifySealed(err, cfg, store, W, header, k) ==
    IF err # Nil THEN err ELSE verifySeal(cfg, store, W, header, k)

VerifyHeaderAndBlock(cfg, store, W, header, unixNow, k) ==
    VerifySealed(verifyHeader(cfg, store, header, unixNow), cfg, store, W, header, k)

-----------------------------------------------------------------------------
(* DelegateItem and its encoding: core/types/block.go *)

AddressLength == 20
ByteValues == 0..255

\* common.Address{}: the address of twenty zero bytes.
ZeroAddress == [i \in 1..AddressLength |-> 0]

\* common.BytesToAddress: the last AddressLength bytes of b, padded on the
\* left with zero bytes.
BytesToAddress(b) ==
    [i \in 1..AddressLength |->
        IF i + Len(b) - AddressLength >= 1 THEN b[i + Len(b) - AddressLength] ELSE 0]

\* rlp.Encode of a byte array: one byte below 128 stands for itself, a
\* string shorter than 56 bytes follows a header of 128 plus its length.
encodeString(b) ==
    IF Len(b) = 1 /\ b[1] < 128 THEN b
    ELSE <<128 + Len(b)>> \o b

\* The byte array keeping the position before the address.
EncodeAddressItemNoPos(d) == encodeString(d.DelegateAddress)

\* The byte array of an item naming an address: the position, then the
\* address.
EncodeAddressItem(d) == encodeString(<<d.Pos>> \o d.DelegateAddress)

\* DelegateItem.EncodeRLP.
EncodeRLP(d) ==
    IF d.DelegateAddress = ZeroAddress
    THEN encodeString(<<d.Pos, d.DelegateNumber>>)
    ELSE EncodeAddressItem(d)

\* rlp.Stream.Decode into a byte slice: the string at the head of the input.
\* A list, a string longer than the input and a single byte below 128 that
\* was given a header are errors.
DecodeBytes(data) ==
    IF data = <<>> THEN [err |-> "EOF", list |-> <<>>]
    ELSE IF data[1] < 128 THEN [err |-> Nil, list |-> <<data[1]>>]
    ELSE IF data[1] >= 184 THEN [err |-> "rlp: expected String or Byte", list |-> <<>>]
    ELSE IF Len(data) < 1 + (data[1] - 128)
    THEN [err |-> "unexpected EOF", list |-> <<>>]
    ELSE IF data[1] = 129 /\ data[2] < 128
    THEN [err |-> "rlp: non-canonical size information", list |-> <<>>]
    ELSE [err |-> Nil, list |-> SubSeq(data, 2, 1 + (data[1] - 128))]

\* DelegateItem.DecodeRLP after the byte slice is decoded, into the item d.
\* The position is read from a slice that may be empty.
DecodeItem(d, r) ==
    IF r.err # Nil THEN [err |-> r.err, panic |-> FALSE, item |-> d]
    ELSE IF Len(r.list) = 0 THEN [err |-> Nil, panic |-> TRUE, item |-> d]
    ELSE IF Len(r.list) = AddressLength + 1
    THEN [err |-> Nil, panic |-> FALSE,
          item |-> [d EXCEPT !.DelegateAddress = BytesToAddress(Tail(r.list)),
                             !.Pos = r.list[1]]]
    ELSE IF Len(r.list) = 2
    THEN [err |-> Nil, panic |-> FALSE,
          item |-> [d EXCEPT !.DelegateNumber = r.list[2], !.Pos = r.list[1]]]
    ELSE [err |-> "invalid input size for DelegateItem", panic |-> FALSE,
          item |-> [d EXCEPT !.Pos = r.list[1]]]

\* DelegateItem.DecodeRLP into the item d.
DecodeRLP(d, data) == DecodeItem(d, DecodeBytes(data))

\* DelegateItem{}.
ZeroItem == [Pos |-> 0, DelegateAddress |-> ZeroAddress, DelegateNumber |-> 0]

-----------------------------------------------------------------------------
(* The proof of work of a transaction: core/types/transaction.go *)

\* two256: the number of values of a hash.  The chain has 2^256.
HashBits == 4
two256 == 2 ^ HashBits

\* crypto.Keccak256 of the 64 byte buffer made of the hash of the fields of
\* the transaction (seed stands for them) and of the work nonce, as a number.
\* Every seed meets every value of the table.
PowTable == <<13, 9, 11, 15, 6, 12, 3, 8, 14, 2, 10, 1>>
PowHash(seed, nonce) == PowTable[((seed + nonce) % Len(PowTable)) + 1]

\* A number as the quotient of two integers.
Quo(num, den) == [num |-> num, den |-> den]
Lt(x, y) == x.num * y.den < y.num * x.den

\* CalculateDifficulty: the cached value when there is one, otherwise two256
\* over the hash for the work nonce of the transaction, which is cached.
CalculateDifficulty(t) ==
    IF t.pow # <<>>
    THEN [tx |-> t, value |-> t.pow[1]]
    ELSE [tx |-> [t EXCEPT !.pow = <<Quo(two256, PowHash(t.seed, t.WorkNonce))>>],
          value |-> Quo(two256, PowHash(t.seed, t.WorkNonce))]

\* targetInt: two256 over the target, as an integer.
TargetInt(target) == (two256 * target.den) \div target.num

\* The loop of CalculateWorkNonce from nonce on: a nonce with a hash below
\* the smallest so far is stored, and the loop ends when that hash is below
\* targetInt.
RECURSIVE CalculateWorkNonceLoop(_, _, _, _)
CalculateWorkNonceLoop(t, targetInt, nonce, smallestHash) ==
    IF PowHash(t.seed, nonce) < smallestHash
    THEN IF PowHash(t.seed, nonce) < targetInt
         THEN [t EXCEPT !.WorkNonce = nonce]
         ELSE CalculateWorkNonceLoop([t EXCEPT !.WorkNonce = nonce], targetInt,
                                     nonce + 1, PowHash(t.seed, nonce))
    ELSE CalculateWorkNonceLoop(t, targetInt, nonce + 1, smallestHash)

CalculateWorkNonce(t, target) ==
    IF Lt(target, Quo(1, 1)) THEN t
    ELSE CalculateWorkNonceLoop(t, TargetInt(target), 0, two256)

-----------------------------------------------------------------------------
(* The pending transactions in the order of their virtual difficulty:       *)
(* core/types/ebakus.go, core/types/transaction.go                          *)

\* A transaction of the pool: its sender, its account nonce, its difficulty
\* and its gas limit.
PoolTx(from, nonce, difficulty, gas) ==
    [from |-> from, nonce |-> nonce, difficulty |-> difficulty, gas |-> gas]

\* An ebakusdb snapshot as the ordering reads it: the Staked table and the
\* system stake.
Snapshot(stakedTable, systemStaked) == [staked |-> stakedTable, systemStake |-> systemStaked]

\* VirtualCapacity: (EspilonStake + accountStaked) / (EspilonStake +
\* systemStaked), kept as the two numbers.
VirtualCapacity(from, snap) ==
    [accountStaked |-> IF from \in DOMAIN snap.staked THEN snap.staked[from] ELSE 0,
     systemStaked |-> IF snap.systemStake = <<>> THEN 0 ELSE snap.systemStake[1]]

\* VirtualDifficulty: cv * txd / gas.  With cv = (e + a) / (e + s) this is
\* (a * txd + e * txd) / ((e + s) * gas): whole is a * txd, eps is txd.
VirtualDifficultyOf(cv, t) ==
    [whole |-> cv.accountStaked * t.difficulty, eps |-> t.difficulty,
     gas |-> t.gas, systemStaked |-> cv.systemStaked]

VirtualDifficulty(t, from, snap) == VirtualDifficultyOf(VirtualCapacity(from, snap), t)

\* x.Cmp(y) = 1 for two virtual difficulties of one snapshot: the factor
\* 1 / (e + s) is the same on both sides, and e = 1e-10 decides only between
\* equal whole parts.
CmpGreater(x, y) ==
    \/ x.whole * y.gas > y.whole * x.gas
    \/ x.whole * y.gas = y.whole * x.gas /\ x.eps * y.gas > y.eps * x.gas

\* The comparison the other way round.
LessReversed(h, i, j, snap) ==
    CmpGreater(VirtualDifficulty(h[j + 1].tx, h[j + 1].from, snap),
               VirtualDifficulty(h[i + 1].tx, h[i + 1].from, snap))

\* TxsByPrice.Less(i, j), the indices counted from 0.
Less(h, i, j, snap) ==
    CmpGreater(VirtualDifficulty(h[i + 1].tx, h[i + 1].from, snap),
               VirtualDifficulty(h[j + 1].tx, h[j + 1].from, snap))

\* TxsByPrice.Swap(i, j).
Swap(h, i, j) == [h EXCEPT ![i + 1] = h[j + 1], ![j + 1] = h[i + 1]]

\* container/heap down(h, i, n): the child to compare with, then the swap
\* and the descent.
downChild(h, i, n, snap) ==
    IF 2 * i + 2 < n /\ Less(h, 2 * i + 2, 2 * i + 1, snap) THEN 2 * i + 2 ELSE 2 * i + 1

RECURSIVE down(_, _, _, _)
downTo(h, i, j, n, snap) ==
    IF ~Less(h, j, i, snap) THEN h ELSE down(Swap(h, i, j), j, n, snap)

down(h, i, n, snap) ==
    IF 2 * i + 1 >= n THEN h ELSE downTo(h, i, downChild(h, i, n, snap), n, snap)

\* heap.Init: down from the last parent to the root.
RECURSIVE heapInitFrom(_, _, _)
heapInitFrom(h, i, snap) ==
    IF i < 0 THEN h ELSE heapInitFrom(down(h, i, Len(h), snap), i - 1, snap)

heapInit(h, snap) == heapInitFrom(h, (Len(h) \div 2) - 1, snap)

\* heap.Fix(h, 0): down from the root (up from the root does nothing).
heapFix(h, snap) == down(h, 0, Len(h), snap)

\* heap.Pop: the root goes to the end, the rest is put in order, the end is
\* cut off.
heapPop(h, snap) ==
    SubSeq(down(Swap(h, 0, Len(h) - 1), 0, Len(h) - 1, snap), 1, Len(h) - 1)

\* The set built with the last transaction of every account as its head.
NewTransactionsLastFirst(pending, order, snap) ==
    [txs |-> [from \in DOMAIN pending |-> SubSeq(pending[from], 1, Len(pending[from]) - 1)],
     heads |-> heapInit([i \in 1..Len(order) |->
                            [tx |-> pending[order[i]][Len(pending[order[i]])],
                             from |-> order[i]]], snap),
     panic |-> FALSE]

\* NewTransactionsByVirtualDifficultyAndNonce: the first transaction of
\* every account becomes a head, in the order in which the map is
\* ranged over, and the heads are made a heap.
NewTransactionsByVirtualDifficultyAndNonce(pending, order, snap) ==
    [txs |-> [from \in DOMAIN pending |-> Tail(pending[from])],
     heads |-> heapInit([i \in 1..Len(order) |->
                            [tx |-> Head(pending[order[i]]), from |-> order[i]]], snap),
     panic |-> FALSE]

\* Peek: the transaction of the first head, <<>> when there is none.
Peek(t) == IF Len(t.heads) = 0 THEN <<>> ELSE <<t.heads[1].tx>>

\* Shift when the account has a next transaction: it replaces the first
\* head, and the heap is fixed.
TxsShiftNext(t, acc, snap) ==
    [t EXCEPT !.heads = heapFix([t.heads EXCEPT ![1].tx = Head(t.txs[acc])], snap),
              !.txs[acc] = Tail(t.txs[acc])]

\* The pop that puts the next transaction of the account in.
TxsPopPromoting(t, snap) ==
    IF Len(t.heads) = 0 THEN [t EXCEPT !.panic = TRUE]
    ELSE IF Len(t.txs[t.heads[1].tx.from]) > 0
    THEN TxsShiftNext(t, t.heads[1].tx.from, snap)
    ELSE [t EXCEPT !.heads = heapPop(t.heads, snap)]

\* Pop.  heap.Pop of an empty heap panics.
TxsPop(t, snap) ==
    IF Len(t.heads) = 0 THEN [t EXCEPT !.panic = TRUE]
    ELSE [t EXCEPT !.heads = heapPop(t.heads, snap)]

\* Shift.  The sender is recovered from the transaction of the first head,
\* which an empty heap does not have.
TxsShift(t, snap) ==
    IF Len(t.heads) = 0 THEN [t EXCEPT !.panic = TRUE]
    ELSE IF t.heads[1].tx.from \in DOMAIN t.txs /\ Len(t.txs[t.heads[1].tx.from]) > 0
    THEN TxsShiftNext(t, t.heads[1].tx.from, snap)
    ELSE TxsPop(t, snap)

-----------------------------------------------------------------------------
(* The block producer: Prepare, FinalizeAndAssemble and Seal of             *)
(* consensus/dpos/dpos.go, and the cycle of miner/worker.go                 *)

ErrProductionAborted == "ErrProductionAborted"
ErrWaitForTransactions == "ErrWaitForTransactions"
errUnknownBlock == "errUnknownBlock"
errPrepareEbakusState == "Prepare new block failed to get ebakus state"
errStateAt == "StateAt failed"
errMakeCurrentEbakusState == "Worker makeCurrent() failed to get ebakus state"
errPending == "Failed to fetch pending transactions"
errSign == "signFn failed"
errWriteBlock == "Failed writing block to chain"
ErrGasLimitReached == "ErrGasLimitReached"
ErrNonceTooLow == "ErrNonceTooLow"
ErrNonceTooHigh == "ErrNonceTooHigh"

\* chain.CurrentBlock(): the header of the highest block.
CurrentBlock(store) == CHOOSE h \in store : \A g \in store : g.Number <= h.Number

\* A snapshot handle is taken: ebakusdb Snapshot(), EbakusStateAt.
Acquire(w, handle) ==
    [w EXCEPT !.open = @ \cup {handle}, !.misuse = @ \/ handle \in w.open]

\* Snapshot.Release() of a handle.
Release(w, handle) ==
    [w EXCEPT !.open = @ \ {handle}, !.misuse = @ \/ handle \notin w.open]

\* The header Prepare builds on the head: Time is uint64(slot * Period).
PrepareHeader(cfg, head, slot) ==
    [Number |-> head.Number + 1, Time |-> (slot.num * cfg.Period) \div slot.den,
     ParentHash |-> Hash(head), Signed |-> FALSE, Signer |-> 0]

\* nextSlotTime: int64((slot + 1) * Period).
NextSlotTime(cfg, slot) == ((slot.num + slot.den) * cfg.Period) \div slot.den

\* The iteration of Prepare after the in-turn signer is looked up: the
\* header when the slot is after the head's and the signer is in turn,
\* otherwise the wait for the next slot.
PrepareTurn(w, cfg, head, slot, inTurnSigner) ==
    IF inTurnSigner.panic THEN [w EXCEPT !.pc = "panic"]
    ELSE IF Lt(Slot(head.Time, cfg.Period), slot) /\ w.prepareSigner = inTurnSigner.value
    THEN [w EXCEPT !.pc = "makeCurrent", !.parent = <<head>>,
                   !.header = <<PrepareHeader(cfg, head, slot)>>]
    ELSE [w EXCEPT !.pc = "select", !.until = NextSlotTime(cfg, slot), !.woke = "none"]

\* One iteration of the loop of Prepare up to its return or its select: the
\* state at the head is taken, the signer looked up and the state released.
PrepareLoop(w, cfg, store, W, unix, k, stateErr) ==
    IF stateErr THEN [w EXCEPT !.pc = "done", !.err = errPrepareEbakusState]
    ELSE PrepareTurn(Release(Acquire(w, "Prepare"), "Prepare"), cfg, CurrentBlock(store),
                     Slot(unix, cfg.Period),
                     getSignerAtSlot(cfg, CurrentBlock(store), W, Slot(unix, cfg.Period), k))

\* The select of Prepare that goes round the loop on the stop signal too.
PrepareSelectNoAbort(w) == [w EXCEPT !.pc = "Prepare", !.woke = "none"]

\* The select of Prepare once a channel is ready: the stop signal ends
\* Prepare with ErrProductionAborted, which ends commitNewWork; the timer
\* goes round the loop.
PrepareSelect(w) ==
    IF w.woke = "stop"
    THEN [w EXCEPT !.pc = "done", !.err = ErrProductionAborted, !.woke = "none"]
    ELSE [w EXCEPT !.pc = "Prepare", !.woke = "none"]

\* The account state at the root of the parent: nothing applied on top.
ParentState == [reward |-> 0, applied |-> <<>>, partial |-> {}]

\* makeCurrent and the fetch of the pending transactions.  failure names
\* the call that fails: the state, the ebakus state, the pool, or none.
makeCurrent(w, snap, failure) ==
    IF ~w.running THEN [w EXCEPT !.pc = "done"]
    ELSE IF failure = "StateAt" THEN [w EXCEPT !.pc = "done", !.err = errStateAt]
    ELSE IF failure = "EbakusStateAt"
    THEN [w EXCEPT !.pc = "done", !.err = errMakeCurrentEbakusState]
    ELSE [Acquire(w, "env") EXCEPT
            !.state = ParentState, !.ebakusState = snap, !.txs = <<>>, !.receipts = <<>>,
            !.tcount = 0,
            !.pc = IF failure = "Pending" THEN "done" ELSE "commitTransactions",
            !.err = IF failure = "Pending" THEN errPending ELSE Nil]

\* What core.ApplyTransaction can do with a transaction on the account state
\* and on the sub-snapshot it is given: apply it, with or without a change
\* of the sender's stake, or fail after writing part of it to both.
StakeApplied(sub, from) ==
    [sub EXCEPT !.staked = (from :> (VirtualCapacity(from, sub).accountStaked + 1)) @@ @,
                !.systemStake = <<VirtualCapacity(from, sub).systemStaked + 1>>]

ApplyTransactionOutcomes(state, sub, t) ==
    {[err |-> Nil, state |-> [state EXCEPT !.applied = Append(@, t)], ebakus |-> e,
      receipt |-> [tx |-> t, status |-> 1]] : e \in {sub, StakeApplied(sub, t.from)}}
    \cup
    {[err |-> err, state |-> [state EXCEPT !.partial = @ \cup {t}],
      ebakus |-> StakeApplied(sub, t.from), receipt |-> <<>>] :
        err \in {ErrGasLimitReached, ErrNonceTooLow, ErrNonceTooHigh, ErrInsufficientBalance}}

\* The failed transaction left in the account state.
stateKept(w, snap) == w

\* state.RevertToSnapshot(snap).
stateRevertToSnapshot(w, snap) == [w EXCEPT !.state = snap]

\* commitTransaction with the outcome r of ApplyTransaction on the
\* sub-snapshot "tx": on an error the account state is reverted and the
\* sub-snapshot dropped, otherwise the working snapshot is reset to the
\* sub-snapshot and the transaction and its receipt are appended.
commitTransaction(w, t, r) ==
    Release(IF r.err # Nil
            THEN stateRevertToSnapshot([Acquire(w, "tx") EXCEPT !.state = r.state], w.state)
            ELSE [Acquire(w, "tx") EXCEPT !.state = r.state, !.ebakusState = r.ebakus,
                                          !.txs = Append(@, t),
                                          !.receipts = Append(@, r.receipt)],
            "tx")

\* The switch of commitTransactions on the error of commitTransaction, kept
\* in applyErr: the count of the cycle, and Pop or Shift.
commitCounted(w, err) ==
    IF err = Nil THEN [w EXCEPT !.tcount = @ + 1, !.applyErr = err]
    ELSE [w EXCEPT !.applyErr = err]

\* The switch that shifts on every error.
commitNextShift(t, err, snap) == TxsShift(t, snap)

commitNext(t, err, snap) ==
    IF err \in {ErrGasLimitReached, ErrNonceTooHigh} THEN TxsPop(t, snap) ELSE TxsShift(t, snap)

\* The block assembled although it has no transaction.
FinalizeEmpty(w, cfg, unix) ==
    [w EXCEPT !.pc = "Seal", !.state.reward = @ + 1,
              !.block = <<[header |-> w.header[1], txs |-> w.txs, receipts |-> w.receipts]>>]

\* FinalizeAndAssemble without transactions: wait for the next slot.
FinalizeWait(w, cfg, unix) ==
    [w EXCEPT !.pc = "waitForTransactions",
              !.until = NextSlotTime(cfg, Slot(unix, cfg.Period))]

\* FinalizeAndAssemble with transactions, after the reward: the snapshot of
\* the parent is looked up and taken, the delegates before and after are
\* read, and the block is made.
FinalizeDelegates(w, oldDelegates, newDelegates) ==
    IF oldDelegates.panic \/ newDelegates.panic THEN [w EXCEPT !.pc = "panic"]
    ELSE [w EXCEPT !.pc = "Seal",
                   !.block = <<[header |-> w.header[1], txs |-> w.txs,
                                receipts |-> w.receipts]>>]

FinalizeAndAssemble(w, cfg, store, W, unix, k, known) ==
    IF Len(w.txs) = 0 THEN FinalizeWait(w, cfg, unix)
    ELSE IF ~known
    THEN [w EXCEPT !.state.reward = @ + 1, !.pc = "done", !.err = errUnknownBlock]
    ELSE Release(
           FinalizeDelegates(
             Acquire([w EXCEPT !.state.reward = @ + 1], "old"),
             GetDelegates(CHOOSE p \in GetHeaderByHash(store, w.header[1].ParentHash) : TRUE,
                          W, cfg.DelegateCount, cfg.BonusDelegateCount,
                          cfg.TurnBlockCount, k),
             GetDelegates(w.header[1], W, cfg.DelegateCount, cfg.BonusDelegateCount,
                          cfg.TurnBlockCount, k)),
           "old")

\* Seal: the header is signed by the signer of the engine.
Seal(w, signErr) ==
    IF signErr THEN [w EXCEPT !.pc = "done", !.err = errSign]
    ELSE [w EXCEPT !.pc = "processWork",
                   !.block[1].header = [@ EXCEPT !.Signed = TRUE, !.Signer = w.signer]]

\* processWork: the block is written with the state, and the working
\* snapshot is released when the write succeeded.
processWork(w, writeErr) ==
    IF writeErr THEN [w EXCEPT !.pc = "done", !.err = errWriteBlock]
    ELSE [Release(w, "env") EXCEPT !.pc = "done"]

-----------------------------------------------------------------------------
(* The delegate diff of a block *)

\* The item WitnessArray.Diff appends for the delegate d at the index i of
\* the new array (from 0), looking for it in the old array s from the index
\* j on: nothing when it is found at the same index, its old index when it
\* is found at another one, its address when it is not found.
RECURSIVE DiffFind(_, _, _, _)
DiffFind(s, d, i, j) ==
    IF j >= Len(s)
    THEN <<[Pos |-> i % 256, DelegateAddress |-> d.Id, DelegateNumber |-> 0]>>
    ELSE IF s[j + 1].Id = d.Id
    THEN IF i # j
         THEN <<[Pos |-> i % 256, DelegateAddress |-> 0, DelegateNumber |-> j % 256]>>
         ELSE <<>>
    ELSE DiffFind(s, d, i, j + 1)

\* The loop of Diff over the new array b from the index i on.
RECURSIVE DiffLoop(_, _, _)
DiffLoop(s, b, i) ==
    IF i >= Len(b) THEN <<>>
    ELSE DiffFind(s, b[i + 1], i, 0) \o DiffLoop(s, b, i + 1)

\* s.Diff(b): s is the old array, b the new one.
Diff(s, b) == DiffLoop(s, b, 0)

-----------------------------------------------------------------------------
(* The DB contract *)

errDBContractError == "db contract error"
errEmptyTableNameError == "table name is empty or invalid"
errTableAbiMalformed == "abi is empty or invalid"
errCreateTableExists == "create table failed as table exists"
errContractAbiNotFound == "contract abi not found"
errAbiTable == "abi: no such table"

\* Names are strings of characters; the bytes of an id are an address, which
\* has a fixed length and is one element, followed by characters.
CharCode ==
    "C" :> 67 @@ "D" :> 68 @@ "S" :> 83 @@ "T" :> 84 @@ "U" :> 85 @@ "W" :> 87
    @@ "a" :> 97 @@ "b" :> 98 @@ "c" :> 99 @@ "d" :> 100 @@ "e" :> 101 @@ "g" :> 103
    @@ "i" :> 105 @@ "k" :> 107 @@ "l" :> 108 @@ "m" :> 109 @@ "n" :> 110
    @@ "o" :> 111 @@ "r" :> 114 @@ "s" :> 115 @@ "t" :> 116

PrecompliledDBContract == 258          \* common.BytesToAddress([]byte{1, 2})

\* ebkdb.GetDBTableName: the name of a table in the store is made of the
\* address of its contract and the name the contract gives it.
GetDBTableName(contractAddress, name) == <<contractAddress, name>>

WitnessesTable ==
    GetDBTableName(PrecompliledSystemContract, <<"W", "i", "t", "n", "e", "s", "s", "e", "s">>)
StakedTable == GetDBTableName(PrecompliledSystemContract, <<"S", "t", "a", "k", "e", "d">>)
ClaimableTable ==
    GetDBTableName(PrecompliledSystemContract, <<"C", "l", "a", "i", "m", "a", "b", "l", "e">>)
DelegationTable ==
    GetDBTableName(PrecompliledSystemContract,
                   <<"D", "e", "l", "e", "g", "a", "t", "i", "o", "n", "s">>)
ContractAbiTable ==
    GetDBTableName(PrecompliledSystemContract,
                   <<"C", "o", "n", "t", "r", "a", "c", "t", "A", "b", "i">>)

\* The tables SystemContractTablesABI describes.
SystemContractTablesABI ==
    {WitnessesTable[2], StakedTable[2], ClaimableTable[2], DelegationTable[2]}
\* The ABIs of the two precompiled contracts describe no table.
SystemContractABI == {}
DBABI == {}

\* GetContractAbiId: the bytes of the address, of the type and of the name,
\* joined without a separator.
GetContractAbiId(address, abiType, name) ==
    <<address>> \o (IF abiType = <<>> THEN <<"a", "b", "i">> ELSE abiType) \o name

TableAbiType == <<"t", "a", "b", "l", "e">>

\* The order of two ids as byte strings.
RECURSIVE IdLess(_, _, _)
IdLess(a, b, i) ==
    IF i > Len(a) THEN i <= Len(b)
    ELSE IF i > Len(b) THEN FALSE
    ELSE IF a[i] = b[i] THEN IdLess(a, b, i + 1)
    ELSE IF i = 1 THEN a[i] < b[i]
    ELSE CharCode[a[i]] < CharCode[b[i]]

IdHasPrefix(id, prefix) ==
    /\ Len(prefix) <= Len(id)
    /\ \A i \in 1..Len(prefix) : id[i] = prefix[i]

\* The rows of a set of ids in the order of the ids.
RECURSIVE IdRows(_, _)
IdRows(rows, ids) ==
    IF ids = {} THEN <<>>
    ELSE LET first == CHOOSE a \in ids : \A b \in ids \ {a} : IdLess(a, b, 1)
         IN <<rows[first]>> \o IdRows(rows, ids \ {first})

\* The store: create_table, insert (an upsert on the primary id), delete, and
\* the queries "Id = bytes" and "Id LIKE prefix".
dbHasTable(db, table) == table \in DOMAIN db
dbCreateTable(db, table) == (table :> <<>>) @@ db
dbInsertObj(db, table, obj) ==
    IF ~dbHasTable(db, table) THEN [db |-> db, ok |-> FALSE]
    ELSE [db |-> [db EXCEPT ![table] = InsertObj(@, obj.Id, obj)], ok |-> TRUE]
dbDeleteObj(db, table, id) ==
    IF ~dbHasTable(db, table) THEN [db |-> db, ok |-> FALSE]
    ELSE [db |-> [db EXCEPT ![table] = DeleteObj(@, id)], ok |-> TRUE]
dbSelectEq(db, table, id) ==
    IF id \in DOMAIN db[table] THEN <<db[table][id]>> ELSE <<>>
dbSelectLike(db, table, prefix) ==
    IdRows(db[table], {id \in DOMAIN db[table] : IdHasPrefix(id, prefix)})

\* storeAbiAtAddress: the ABI of an address is stored once.
storeAbiAtAddress(db, contractAddress, abi) ==
    IF dbSelectLike(db, ContractAbiTable, GetContractAbiId(contractAddress, <<>>, <<>>)) # <<>>
    THEN db
    ELSE dbInsertObj(db, ContractAbiTable,
                     [Id |-> GetContractAbiId(contractAddress, <<>>, <<>>), Abi |-> abi]).db

\* SystemContractSetupDB: the tables of the system contract at genesis.
SystemContractSetupDB ==
    storeAbiAtAddress(
        storeAbiAtAddress(
            dbCreateTable(dbCreateTable(dbCreateTable(dbCreateTable(
                dbInsertObj(dbCreateTable(<<>>, WitnessesTable), WitnessesTable,
                            [Id |-> GenesisWitness, Stake |-> 0, Flags |-> ElectEnabledFlag]).db,
                StakedTable), ClaimableTable), DelegationTable), ContractAbiTable),
            PrecompliledSystemContract, SystemContractABI),
        PrecompliledDBContract, DBABI)

\* What a call of the DB contract gives: the store, the returned word, the error.
DBResult(db, ret, err) == [db |-> db, ret |-> ret, err |-> err]

\* GetAbiForTable: the tables of the system contract have a fixed ABI; the
\* ABI of another table is that of the first ContractAbi row whose id begins
\* with the id of the table.
GetAbiForTable(db, contractAddress, name) ==
    IF contractAddress = PrecompliledSystemContract
    THEN [abi |-> SystemContractTablesABI, err |-> Nil]
    ELSE LET rows == dbSelectLike(db, ContractAbiTable,
                                  GetContractAbiId(contractAddress, TableAbiType, name))
         IN IF rows = <<>> THEN [abi |-> {}, err |-> errContractAbiNotFound]
            ELSE [abi |-> rows[1].Abi, err |-> Nil]

\* dbContract.createTable.  An ABI is the set of the tables it describes.
createTable(db, contractAddress, table) ==
    IF table.TableName = <<>> THEN DBResult(db, 0, errEmptyTableNameError)
    ELSE IF table.Abi = {} THEN DBResult(db, 0, errTableAbiMalformed)
    ELSE IF table.TableName \notin table.Abi THEN DBResult(db, 0, errAbiTable)
    ELSE IF dbSelectEq(db, ContractAbiTable,
                       GetContractAbiId(contractAddress, TableAbiType, table.TableName)) # <<>>
    THEN DBResult(db, 0, errCreateTableExists)
    ELSE LET r == dbInsertObj(
                      dbCreateTable(db, GetDBTableName(contractAddress, table.TableName)),
                      ContractAbiTable,
                      [Id |-> GetContractAbiId(contractAddress, TableAbiType, table.TableName),
                       Abi |-> table.Abi])
         IN IF r.ok THEN DBResult(r.db, 1, Nil) ELSE DBResult(r.db, 0, errDBContractError)

\* dbContract.insertObj with the table of the first caller, whoever calls.
insertObjOfFirst(db, contractAddress, obj) ==
    LET tableABI == GetAbiForTable(db, contractAddress, obj.TableName)
    IN IF obj.TableName = <<>> THEN DBResult(db, 0, errEmptyTableNameError)
       ELSE IF tableABI.err # Nil THEN DBResult(db, 0, tableABI.err)
       ELSE IF obj.TableName \notin tableABI.abi THEN DBResult(db, 0, errAbiTable)
       ELSE LET r == dbInsertObj(db, GetDBTableName(1, obj.TableName), obj.Data)
            IN DBResult(r.db, IF r.ok THEN 1 ELSE 0, Nil)

\* dbContract.insertObj.
insertObj(db, contractAddress, obj) ==
    LET tableABI == GetAbiForTable(db, contractAddress, obj.TableName)
    IN IF obj.TableName = <<>> THEN DBResult(db, 0, errEmptyTableNameError)
       ELSE IF tableABI.err # Nil THEN DBResult(db, 0, tableABI.err)
       ELSE IF obj.TableName \notin tableABI.abi THEN DBResult(db, 0, errAbiTable)
       ELSE LET r == dbInsertObj(db, GetDBTableName(contractAddress, obj.TableName), obj.Data)
            IN DBResult(r.db, IF r.ok THEN 1 ELSE 0, Nil)

\* dbContract.deleteObj.
deleteObj(db, contractAddress, obj) ==
    LET tableABI == GetAbiForTable(db, contractAddress, obj.TableName)
    IN IF obj.TableName = <<>> THEN DBResult(db, 0, errEmptyTableNameError)
       ELSE IF tableABI.err # Nil THEN DBResult(db, 0, tableABI.err)
       ELSE IF obj.TableName \notin tableABI.abi THEN DBResult(db, 0, errAbiTable)
       ELSE LET r == dbDeleteObj(db, GetDBTableName(contractAddress, obj.TableName), obj.Id)
            IN DBResult(r.db, IF r.ok THEN 1 ELSE 0, Nil)

\* dbContract.Run: the command acts for the caller of the contract.  The
\* commands that read leave the store as it is.
dbContractRun(db, from, cmd, arg) ==
    CASE cmd = "createTable" -> createTable(db, from, arg)
      [] cmd = "insertObj" -> insertObj(db, from, arg)
      [] cmd = "deleteObj" -> deleteObj(db, from, arg)
      [] OTHER -> DBResult(db, 0, Nil)

-----------------------------------------------------------------------------
(* The state machine *)

\* The configuration of the engine when the chain configuration gives one
\* producer and no bonus delegate.
DefaultConfig ==
    [Period |-> 1, DelegateCount |-> 1, BonusDelegateCount |-> 0, TurnBlockCount |-> 1]

\* No call of the engine is being made.
NoEval == [op |-> "none", header |-> GenesisHeader, slot |-> Slot(0, 1),
           result |-> Returned(<<>>)]

NoCall ==
    [op |-> "none", from |-> 0, decoded |-> FALSE, amount |-> 0, addresses |-> <<>>,
     enable |-> FALSE, err |-> Nil, transferred |-> 0, claimed |-> 0]

\* No production cycle is under way.
NoWorker ==
    [pc |-> "idle", running |-> FALSE, signer |-> 0, woke |-> "none", until |-> 0,
     parent |-> <<>>, header |-> <<>>, err |-> Nil, applyErr |-> Nil, open |-> {}, misuse |-> FALSE,
     state |-> ParentState, ebakusState |-> Snapshot(<<>>, <<>>), txs |-> <<>>,
     receipts |-> <<>>, tcount |-> 0, block |-> <<>>, wg |-> 0, stopper |-> "none",
     prepareSigner |-> 0]
\* No transaction set is built.
NoTxs == [txs |-> <<>>, heads |-> <<>>, panic |-> FALSE]
\* No transaction is at hand.
NoTx == [seed |-> 0, WorkNonce |-> 0, pow |-> <<>>, target |-> <<>>]

\* SystemContractSetupDB: the tables are empty but for the genesis witness.
Init ==
    /\ witnesses = [a \in {GenesisWitness} |-> [Stake |-> 0, Flags |-> ElectEnabledFlag]]
    /\ staked = <<>>
    /\ claimable = <<>>
    /\ delegations = {}
    /\ systemStake = <<>>
    /\ balance = GenesisBalance
    /\ now = GenesisTime
    /\ number = 1
    /\ last = NoCall
    /\ config = DefaultConfig
    /\ keccak = 0
    /\ chain = {GenesisHeader}
    /\ clock = 0
    /\ eval = NoEval
    /\ worker = NoWorker
    /\ txs = NoTxs
    /\ tx = NoTx
    /\ emitted = <<>>

\* A transaction to the system contract, applied in the current block.
Apply(from, cmd, decoded, arg, rec) ==
    \E r \in {Call(State, from, cmd, decoded, arg, now)} :
       /\ last = NoCall
       /\ \A w \in DOMAIN r.s.witnesses : r.s.witnesses[w].Stake <= MaxWitnessStake
       /\ witnesses' = r.s.witnesses
       /\ staked' = r.s.staked
       /\ claimable' = r.s.claimable
       /\ delegations' = r.s.delegations
       /\ systemStake' = r.s.systemStake
       /\ balance' = r.s.balance
       /\ last' = [rec EXCEPT !.op = cmd, !.from = from, !.decoded = decoded,
                              !.err = r.err, !.transferred = r.transferred,
                              !.claimed = r.claimed]
       /\ UNCHANGED <<now, number, consensusVars, producerVars>>

Stake(from, decoded, arg) ==
    Apply(from, "stake", decoded, arg, [NoCall EXCEPT !.amount = arg])

Unstake(from, decoded, arg) ==
    Apply(from, "unstake", decoded, arg, [NoCall EXCEPT !.amount = arg])

Claim(from) == Apply(from, "claim", TRUE, 0, NoCall)

Vote(from, decoded, arg) ==
    Apply(from, "vote", decoded, arg, [NoCall EXCEPT !.addresses = arg])

Unvote(from) == Apply(from, "unvote", TRUE, 0, NoCall)

ElectEnable(from, decoded, arg) ==
    Apply(from, "electEnable", decoded, arg, [NoCall EXCEPT !.enable = arg])

\* The next block: its time is at least one period after its parent's.
NewBlock(step, blocks) ==
    /\ last = NoCall
    /\ number < 1 + blocks
    /\ now' = now + step
    /\ number' = number + 1
    /\ UNCHANGED <<witnesses, staked, claimable, delegations, systemStake, balance, last>>
    /\ UNCHANGED <<consensusVars, producerVars>>

\* The transaction is done and its result handed back: on to the next one.
Shift ==
    /\ last # NoCall
    /\ last' = NoCall
    /\ UNCHANGED <<witnesses, staked, claimable, delegations, systemStake, balance, now, number>>
    /\ UNCHANGED <<consensusVars, producerVars>>

\* The transactions of a run: who sends, and which arguments.
Transactions(callers, amounts, lists, enables) ==
    \/ \E from \in callers, arg \in amounts : Stake(from, TRUE, arg)
    \/ \E from \in callers : Stake(from, FALSE, 0)
    \/ \E from \in callers, arg \in amounts : Unstake(from, TRUE, arg)
    \/ \E from \in callers : Claim(from)
    \/ \E from \in callers, arg \in lists : Vote(from, TRUE, arg)
    \/ \E from \in callers : Unvote(from)
    \/ \E from \in callers, arg \in enables : ElectEnable(from, TRUE, arg)
    \/ Shift

\* The transactions of one block: both accounts stake, unstake and vote.
Next == Transactions(Accounts, SmallAmounts, AddressLists, BOOLEAN)

Spec == Init /\ [][Next]_vars

\* One account stakes and unstakes over a few blocks, the vesting period
\* passing between them.
NextVesting ==
    \/ Transactions({1}, Amounts, {<<1>>, <<2>>}, BOOLEAN)
    \/ \E step \in TimeSteps : NewBlock(step, MaxBlocks)

SpecVesting == Init /\ [][NextVesting]_vars

\* One account unstakes block after block, long enough to fill its claimables.
NextFill ==
    \/ Transactions({1}, SmallAmounts, {<<1>>}, BOOLEAN)
    \/ NewBlock(1, MaxFillBlocks)

SpecFill == Init /\ [][NextFill]_vars

-----------------------------------------------------------------------------
(* The election on its own: a witness table, a configuration, and calls of
   GetDelegates and getSignerAtSlot for headers and slots *)

ElectAddresses == {1, 2, 3}

\* The rows a witness of the election can have: voted for by the account that
\* staked 1, or by the account that staked 2, enabled or not.
ElectRows ==
    {[Stake |-> 1, Flags |-> ElectEnabledFlag], [Stake |-> 2, Flags |-> ElectEnabledFlag],
     [Stake |-> 2, Flags |-> 0]}

WitnessSnapshots ==
    UNION {[as -> ElectRows] : as \in SUBSET ElectAddresses}

\* Configurations of the engine, the degenerate ones included.
ElectConfigs ==
    [Period : {1}, DelegateCount : {0, 1, 2}, BonusDelegateCount : {0, 1},
     TurnBlockCount : {0, 1, 2}]

ElectHeaders ==
    [Number : {1, 2}, Time : 0..MaxHeaderTime, ParentHash : {Hash(GenesisHeader)},
     Signed : {TRUE}, Signer : {1}]

ElectSlots == {Slot(n, 1) : n \in 0..3} \cup {Slot(1, 2), Slot(5, 2)}

\* The store behind a witness table W: account 1 has staked 2 and voted for
\* the witnesses of stake 2, account 2 has staked 1 and voted for the others.
InitElect ==
    /\ witnesses \in WitnessSnapshots
    /\ staked = [a \in Accounts |-> 3 - a]
    /\ claimable = <<>>
    /\ delegations = {<<3 - witnesses[w].Stake, w>> : w \in DOMAIN witnesses}
    /\ systemStake = <<3>>
    /\ balance = [a \in Addresses |->
                     IF a \in Accounts THEN GenesisBalance[a] - (3 - a) * precisionFactor
                     ELSE GenesisBalance[a] + 3 * precisionFactor]
    /\ now = GenesisTime
    /\ number = 1
    /\ last = NoCall
    /\ config \in ElectConfigs
    /\ keccak \in {0, 1}
    /\ chain = {GenesisHeader}
    /\ clock = 0
    /\ eval = NoEval
    /\ worker = NoWorker
    /\ txs = NoTxs
    /\ tx = NoTx
    /\ emitted = <<>>

\* A call of GetDelegates for a header, on the witness table as it is.
CallGetDelegates(header) ==
    /\ eval.op \in {"none", "GetDelegates"}
    /\ eval' = [op |-> "GetDelegates", header |-> header, slot |-> Slot(0, 1),
                result |-> GetDelegates(header, witnesses, config.DelegateCount,
                                        config.BonusDelegateCount, config.TurnBlockCount,
                                        keccak)]
    /\ UNCHANGED <<contractVars, engineVars, producerVars>>

\* A call of getSignerAtSlot for a parent header and a slot.
CallGetSignerAtSlot(header, slot) ==
    /\ eval = NoEval
    /\ eval' = [op |-> "getSignerAtSlot", header |-> header, slot |-> slot,
                result |-> getSignerAtSlot(config, header, witnesses, slot, keccak)]
    /\ UNCHANGED <<contractVars, engineVars, producerVars>>

\* The call has returned.
Return ==
    /\ eval # NoEval
    /\ eval' = NoEval
    /\ UNCHANGED <<contractVars, engineVars, producerVars>>

NextElect ==
    \/ \E header \in ElectHeaders : CallGetDelegates(header)
    \/ \E header \in ElectHeaders, slot \in ElectSlots : CallGetSignerAtSlot(header, slot)
    \/ Return

SpecElect == InitElect /\ [][NextElect]_vars

-----------------------------------------------------------------------------
(* The chain of headers: headers arrive from the network and are verified
   against the local chain, the wall clock and the witnesses *)

\* Two elect-enabled witnesses, and an account that is none.
ChainWitnesses ==
    [a \in {1, 2} |-> [Stake |-> 3 - a, Flags |-> ElectEnabledFlag]]

ChainConfigs ==
    [Period : {1, 2}, DelegateCount : {2}, BonusDelegateCount : {0},
     TurnBlockCount : {1, 2}]

BogusHash == <<"unknown">>

\* What the signature of an arriving header recovers to.
Signatures ==
    {[Signed |-> TRUE, Signer |-> a] : a \in {1, 2, 3}} \cup {[Signed |-> FALSE, Signer |-> 0]}

InitChain ==
    /\ witnesses = ChainWitnesses
    /\ staked = [a \in Accounts |-> 3 - a]
    /\ claimable = <<>>
    /\ delegations = {<<1, 1>>, <<2, 2>>}
    /\ systemStake = <<3>>
    /\ balance = [a \in Addresses |->
                     IF a \in Accounts THEN GenesisBalance[a] - (3 - a) * precisionFactor
                     ELSE GenesisBalance[a] + 3 * precisionFactor]
    /\ now = GenesisTime
    /\ number = 1
    /\ last = NoCall
    /\ config \in ChainConfigs
    /\ keccak = 0
    /\ chain = {GenesisHeader}
    /\ clock = 0
    /\ eval = NoEval
    /\ worker = NoWorker
    /\ txs = NoTxs
    /\ tx = NoTx
    /\ emitted = <<>>

\* A header arrives and is verified; a header of a new block that passes is
\* written to the chain.
ImportHeader(header) ==
    /\ eval = NoEval
    /\ Cardinality(chain) <= MaxChain
    /\ \E err \in {VerifyHeaderAndBlock(config, chain, witnesses, header, clock, keccak)} :
          /\ eval' = [op |-> "verify", header |-> header,
                      slot |-> Slot(header.Time, config.Period), result |-> Returned(err)]
          /\ chain' = IF err = Nil /\ header.Number > 0 THEN chain \cup {header} ELSE chain
    /\ UNCHANGED <<contractVars, config, keccak, clock, producerVars>>

\* A second of wall-clock time passes.
Tick ==
    /\ eval = NoEval
    /\ clock < MaxClock
    /\ clock' = clock + 1
    /\ UNCHANGED <<contractVars, config, keccak, chain, eval, producerVars>>

NextChain ==
    \/ \E num \in {0, 1, 2}, time \in 0..(MaxClock + 1),
          parent \in {Hash(h) : h \in chain} \cup {BogusHash}, sig \in Signatures :
            ImportHeader([Number |-> num, Time |-> time, ParentHash |-> parent,
                          Signed |-> sig.Signed, Signer |-> sig.Signer])
    \/ Tick
    \/ Return

SpecChain == InitChain /\ [][NextChain]_vars

-----------------------------------------------------------------------------
(* The encoding of delegate items, item by item *)

\* Addresses of delegates: a zero byte at the front, a zero byte at the end,
\* no zero byte, and bytes above 127.
ItemAddresses ==
    {[i \in 1..AddressLength |-> IF i = AddressLength THEN a ELSE 0] : a \in {1, 2, 128}}
        \cup {[i \in 1..AddressLength |-> IF i = 1 THEN 1 ELSE 0],
              [i \in 1..AddressLength |-> 255]}

\* The items WitnessArray.Diff builds: a delegate that moved, by its previous
\* position, and a new delegate, by its address.
DelegateItems ==
    {[Pos |-> p, DelegateAddress |-> ZeroAddress, DelegateNumber |-> n] :
        p \in ByteValues, n \in ByteValues}
    \cup {[Pos |-> p, DelegateAddress |-> a, DelegateNumber |-> 0] :
            p \in ByteValues, a \in ItemAddresses}

InitRLP ==
    /\ witnesses = [a \in {GenesisWitness} |-> [Stake |-> 0, Flags |-> ElectEnabledFlag]]
    /\ staked = <<>>
    /\ claimable = <<>>
    /\ delegations = {}
    /\ systemStake = <<>>
    /\ balance = GenesisBalance
    /\ now = GenesisTime
    /\ number = 1
    /\ last = NoCall
    /\ config = DefaultConfig
    /\ keccak = 0
    /\ chain = {GenesisHeader}
    /\ clock = 0
    /\ \E d \in DelegateItems : eval = [op |-> "DelegateItem", item |-> d]
    /\ worker = NoWorker
    /\ txs = NoTxs
    /\ tx = NoTx
    /\ emitted = <<>>

\* The item is encoded for a header.
CallEncodeRLP ==
    /\ eval.op = "DelegateItem"
    /\ eval' = [op |-> "EncodeRLP", item |-> eval.item, data |-> EncodeRLP(eval.item)]
    /\ UNCHANGED <<contractVars, engineVars, producerVars>>

\* The bytes are decoded into a new item.
CallDecodeRLP ==
    /\ eval.op = "EncodeRLP"
    /\ eval' = [op |-> "DecodeRLP", item |-> eval.item, data |-> eval.data,
                result |-> DecodeRLP(ZeroItem, eval.data)]
    /\ UNCHANGED <<contractVars, engineVars, producerVars>>

NextRLP == CallEncodeRLP \/ CallDecodeRLP

SpecRLP == InitRLP /\ [][NextRLP]_vars

-----------------------------------------------------------------------------
(* The proof of work of one transaction *)

\* Target difficulties: below one, one, and above one.
Targets == {Quo(1, 2), Quo(1, 1), Quo(3, 2), Quo(2, 1), Quo(4, 1)}
Seeds == 0..(Len(PowTable) - 1)
MaxInitialWorkNonce == 2

\* newTransaction: a transaction with the work nonce it was made with and
\* no cached value.
InitWork ==
    /\ witnesses = [a \in {GenesisWitness} |-> [Stake |-> 0, Flags |-> ElectEnabledFlag]]
    /\ staked = <<>>
    /\ claimable = <<>>
    /\ delegations = {}
    /\ systemStake = <<>>
    /\ balance = GenesisBalance
    /\ now = GenesisTime
    /\ number = 1
    /\ last = NoCall
    /\ config = DefaultConfig
    /\ keccak = 0
    /\ chain = {GenesisHeader}
    /\ clock = 0
    /\ eval = NoEval
    /\ worker = NoWorker
    /\ txs = NoTxs
    /\ \E seed \in Seeds, workNonce \in 0..MaxInitialWorkNonce :
          tx = [seed |-> seed, WorkNonce |-> workNonce, pow |-> <<>>, target |-> <<>>]
    /\ emitted = <<>>

\* The difficulty of the transaction is asked for.
CallCalculateDifficulty ==
    /\ tx.pow = <<>>
    /\ tx' = CalculateDifficulty(tx).tx
    /\ UNCHANGED <<contractVars, consensusVars, worker, txs, emitted>>

\* The work nonce is searched for a target, once.
CallCalculateWorkNonce(target) ==
    /\ tx.target = <<>>
    /\ tx' = [CalculateWorkNonce(tx, target) EXCEPT !.target = <<target>>]
    /\ UNCHANGED <<contractVars, consensusVars, worker, txs, emitted>>

NextWork ==
    \/ CallCalculateDifficulty
    \/ \E target \in Targets : CallCalculateWorkNonce(target)

SpecWork == InitWork /\ [][NextWork]_vars

-----------------------------------------------------------------------------
(* The pending transactions of four accounts, drained by the producer *)

HeapSenders == {1, 2, 3, 4}
HeapDifficulties == {1, 3}

\* What TxPool.Pending() hands over: for every account its transactions by
\* ascending nonce.  Two accounts have two transactions, two have one.
PendingMaps ==
    {(1 :> <<PoolTx(1, 5, a, 1), PoolTx(1, 6, b, 1)>>
        @@ 2 :> <<PoolTx(2, 1, c, 1), PoolTx(2, 2, d, 1)>>
        @@ 3 :> <<PoolTx(3, 7, e, 2)>>
        @@ 4 :> <<PoolTx(4, 0, f, 1)>>) :
        a \in HeapDifficulties, b \in HeapDifficulties, c \in HeapDifficulties,
        d \in HeapDifficulties, e \in HeapDifficulties, f \in HeapDifficulties}

\* The working snapshot of the producer: three accounts hold a stake.  The
\* transaction set is built on it, the map ranged over in any order.
InitHeap ==
    /\ witnesses = [a \in {GenesisWitness} |-> [Stake |-> 0, Flags |-> ElectEnabledFlag]]
    /\ staked = (1 :> 1 @@ 2 :> 1 @@ 3 :> 2)
    /\ claimable = <<>>
    /\ delegations = {}
    /\ systemStake = <<4>>
    /\ balance = [a \in HeapSenders \cup {PrecompliledSystemContract} |->
                     IF a \in HeapSenders THEN precisionFactor + 3
                     ELSE 1 + 4 * precisionFactor]
    /\ now = GenesisTime
    /\ number = 1
    /\ last = NoCall
    /\ config = DefaultConfig
    /\ keccak = 0
    /\ chain = {GenesisHeader}
    /\ clock = 0
    /\ eval = NoEval
    /\ worker = NoWorker
    /\ \E pending \in PendingMaps, order \in Permutations(HeapSenders) :
          txs = NewTransactionsByVirtualDifficultyAndNonce(
                    pending, order, Snapshot(staked, systemStake))
    /\ tx = NoTx
    /\ emitted = <<>>

\* The transaction Peek returns is removed by Shift or by Pop.
Emitted(by) == emitted \o [i \in 1..Len(Peek(txs)) |-> [tx |-> Peek(txs)[i], by |-> by]]

\* The transaction at the head is a call of the system contract by its
\* sender; it is applied to the working snapshot, and Shift brings the next
\* one of the sender in.
CommitSystemCallAndShift(cmd, arg) ==
    /\ ~txs.panic /\ Peek(txs) # <<>>
    /\ \E r \in {Call(State, Peek(txs)[1].from, cmd, TRUE, arg, now)} :
          /\ witnesses' = r.s.witnesses
          /\ staked' = r.s.staked
          /\ claimable' = r.s.claimable
          /\ delegations' = r.s.delegations
          /\ systemStake' = r.s.systemStake
          /\ balance' = r.s.balance
          /\ txs' = TxsShift(txs, Snapshot(r.s.staked, r.s.systemStake))
    /\ emitted' = Emitted("Shift")
    /\ UNCHANGED <<now, number, last, consensusVars, worker, tx>>

\* Shift after a transaction that leaves the tables alone, or with no
\* transaction left.
CallShift ==
    /\ ~txs.panic
    /\ txs' = TxsShift(txs, Snapshot(staked, systemStake))
    /\ emitted' = Emitted("Shift")
    /\ UNCHANGED <<contractVars, consensusVars, worker, tx>>

\* Pop after a transaction that cannot be executed, or with no transaction
\* left.
CallPop ==
    /\ ~txs.panic
    /\ txs' = TxsPop(txs, Snapshot(staked, systemStake))
    /\ emitted' = Emitted("Pop")
    /\ UNCHANGED <<contractVars, consensusVars, worker, tx>>

NextHeap ==
    \/ \E cmd \in {"stake", "unstake"} : CommitSystemCallAndShift(cmd, 1)
    \/ CallShift
    \/ CallPop

SpecHeap == InitHeap /\ [][NextHeap]_vars

-----------------------------------------------------------------------------
(* The block producer of one signer on a chain others add blocks to *)

\* What TxPool.Pending() hands over, and the order the map is ranged over.
ProducerPending ==
    {[pending |-> <<>>, order |-> <<>>],
     [pending |-> (1 :> <<PoolTx(1, 0, 1, 1)>>), order |-> <<1>>],
     [pending |-> (1 :> <<PoolTx(1, 0, 1, 1), PoolTx(1, 1, 3, 1)>>
                   @@ 2 :> <<PoolTx(2, 0, 3, 1)>>),
      order |-> <<2, 1>>]}

\* The worker of a node whose engine is authorized for the first of the two
\* witnesses, before worker.start().
InitProducer ==
    /\ witnesses = ChainWitnesses
    /\ staked = [a \in Accounts |-> 3 - a]
    /\ claimable = <<>>
    /\ delegations = {<<1, 1>>, <<2, 2>>}
    /\ systemStake = <<3>>
    /\ balance = [a \in Addresses |->
                     IF a \in Accounts THEN GenesisBalance[a] - (3 - a) * precisionFactor
                     ELSE GenesisBalance[a] + 3 * precisionFactor]
    /\ now = GenesisTime
    /\ number = 1
    /\ last = NoCall
    /\ config \in ChainConfigs
    /\ keccak = 0
    /\ chain = {GenesisHeader}
    /\ clock = 0
    /\ eval = NoEval
    /\ worker = [NoWorker EXCEPT !.pc = "notStarted", !.signer = 1]
    /\ txs = NoTxs
    /\ tx = NoTx
    /\ emitted = <<>>

\* worker.start(): running is set and the goroutine of blockProducer is made.
Start ==
    /\ worker.pc = "notStarted"
    /\ worker' = [worker EXCEPT !.running = TRUE, !.pc = "spawned"]
    /\ UNCHANGED <<contractVars, consensusVars, txs, tx, emitted>>

\* The goroutine of blockProducer begins with wg.Add(1).
BlockProducerEnter ==
    /\ worker.pc = "spawned"
    /\ worker' = [worker EXCEPT !.wg = @ + 1, !.pc = "idle"]
    /\ UNCHANGED <<contractVars, consensusVars, txs, tx, emitted>>

\* blockProducer after its loop: wg.Done().
BlockProducerExit ==
    /\ worker.pc = "stopped"
    /\ worker' = [worker EXCEPT !.wg = @ - 1, !.pc = "exited"]
    /\ UNCHANGED <<contractVars, consensusVars, txs, tx, emitted>>

\* blockProducer: the next cycle starts as long as the worker is running.
\* Prepare begins by reading the signer of the engine under its lock.
CommitNewWork ==
    /\ worker.pc = "idle"
    /\ Cardinality(chain) <= MaxChain
    /\ worker' = [worker EXCEPT !.pc = IF worker.running THEN "Prepare" ELSE "stopped",
                                !.prepareSigner = IF worker.running THEN worker.signer ELSE @]
    /\ UNCHANGED <<contractVars, consensusVars, txs, tx, emitted>>

\* An iteration of the loop of Prepare.
PrepareStep(stateErr) ==
    /\ worker.pc = "Prepare"
    /\ worker' = PrepareLoop(worker, config, chain, witnesses, clock, keccak, stateErr)
    /\ UNCHANGED <<contractVars, consensusVars, txs, tx, emitted>>

\* worker.stop() up to its wg.Wait(): running is cleared and a signal is
\* offered on stopCh, which is taken only by a Prepare that waits in its
\* select.
Stop ==
    /\ worker.running /\ worker.stopper = "none"
    /\ worker' = [worker EXCEPT !.running = FALSE, !.stopper = "Wait",
                                !.woke = IF worker.pc = "select" /\ worker.woke = "none"
                                         THEN "stop" ELSE @]
    /\ UNCHANGED <<contractVars, consensusVars, txs, tx, emitted>>

\* Authorize: the signer of the engine is replaced under its lock.
Authorize(signer) ==
    /\ worker.signer # signer
    /\ worker' = [worker EXCEPT !.signer = signer]
    /\ UNCHANGED <<contractVars, consensusVars, txs, tx, emitted>>

\* wg.Wait() of worker.stop() returns when the counter is zero.
StopReturn ==
    /\ worker.stopper = "Wait" /\ worker.wg = 0
    /\ worker' = [worker EXCEPT !.stopper = "returned"]
    /\ UNCHANGED <<contractVars, consensusVars, txs, tx, emitted>>

\* The timer of the select fires at the next slot time.
TimerFires ==
    /\ worker.pc = "select" /\ worker.woke = "none"
    /\ clock >= worker.until
    /\ worker' = [worker EXCEPT !.woke = "timer"]
    /\ UNCHANGED <<contractVars, consensusVars, txs, tx, emitted>>

\* Prepare goes on after its select.
Select ==
    /\ worker.pc = "select" /\ worker.woke # "none"
    /\ worker' = PrepareSelect(worker)
    /\ UNCHANGED <<contractVars, consensusVars, txs, tx, emitted>>

\* commitNewWork after Prepare: the environment of the cycle is made, the
\* pending transactions are fetched and put in order.
MakeCurrent(failure, input) ==
    /\ worker.pc = "makeCurrent"
    /\ \E w \in {makeCurrent(worker, Snapshot(staked, systemStake), failure)} :
          /\ worker' = w
          /\ txs' = IF w.pc = "commitTransactions"
                    THEN NewTransactionsByVirtualDifficultyAndNonce(
                             input.pending, input.order, w.ebakusState)
                    ELSE txs
    /\ UNCHANGED <<contractVars, consensusVars, tx, emitted>>

\* An iteration of commitTransactions on the transaction Peek returns.
CommitTransactionsStep ==
    /\ worker.pc = "commitTransactions"
    /\ Peek(txs) # <<>>
    /\ \E r \in ApplyTransactionOutcomes(worker.state, worker.ebakusState, Peek(txs)[1]) :
          \E w \in {commitTransaction(worker, Peek(txs)[1], r)} :
             /\ worker' = commitCounted(w, r.err)
             /\ txs' = commitNext(txs, r.err, w.ebakusState)
    /\ UNCHANGED <<contractVars, consensusVars, tx, emitted>>

\* commitTransactions ends: no transaction is left, or the time or the gas
\* of the block is used up.
CommitTransactionsBreak ==
    /\ worker.pc = "commitTransactions"
    /\ worker' = [worker EXCEPT !.pc = "FinalizeAndAssemble"]
    /\ UNCHANGED <<contractVars, consensusVars, txs, tx, emitted>>

Finalize(known) ==
    /\ worker.pc = "FinalizeAndAssemble"
    /\ worker' = FinalizeAndAssemble(worker, config, chain, witnesses, clock, keccak, known)
    /\ UNCHANGED <<contractVars, consensusVars, txs, tx, emitted>>

\* The wait of FinalizeAndAssemble is over: ErrWaitForTransactions.
WaitForTransactions ==
    /\ worker.pc = "waitForTransactions"
    /\ clock >= worker.until
    /\ worker' = [worker EXCEPT !.pc = "done", !.err = ErrWaitForTransactions]
    /\ UNCHANGED <<contractVars, consensusVars, txs, tx, emitted>>

SealBlock(signErr) ==
    /\ worker.pc = "Seal"
    /\ worker' = Seal(worker, signErr)
    /\ UNCHANGED <<contractVars, consensusVars, txs, tx, emitted>>

\* processWork: WriteBlockWithState puts the block on the chain.
ProcessWork(writeErr) ==
    /\ worker.pc = "processWork"
    /\ worker' = processWork(worker, writeErr)
    /\ chain' = IF writeErr THEN chain ELSE chain \cup {worker.block[1].header}
    /\ UNCHANGED <<contractVars, config, keccak, clock, eval, txs, tx, emitted>>

\* commitNewWork has returned.
EndCycle ==
    /\ worker.pc = "done"
    /\ worker' = [NoWorker EXCEPT !.running = worker.running, !.signer = worker.signer,
                                  !.wg = worker.wg, !.stopper = worker.stopper]
    /\ txs' = NoTxs
    /\ UNCHANGED <<contractVars, consensusVars, tx, emitted>>

\* The block of another producer arrives, passes the verification and
\* becomes the head.  The blocks arrive between the cycles and while Prepare
\* runs, where the head is read.
InsertBlock(header) ==
    /\ Cardinality(chain) <= MaxChain
    /\ worker.pc \in {"idle", "Prepare", "select", "stopped"}
    /\ VerifyHeaderAndBlock(config, chain, witnesses, header, clock, keccak) = Nil
    /\ chain' = chain \cup {header}
    /\ UNCHANGED <<contractVars, config, keccak, clock, eval, producerVars>>

NextProducer ==
    \/ Start
    \/ BlockProducerEnter
    \/ CommitNewWork
    \/ \E stateErr \in BOOLEAN : PrepareStep(stateErr)
    \/ Stop
    \/ StopReturn
    \/ BlockProducerExit
    \/ TimerFires
    \/ Select
    \/ \E failure \in {"none", "StateAt", "EbakusStateAt", "Pending"},
          input \in ProducerPending : MakeCurrent(failure, input)
    \/ CommitTransactionsStep
    \/ CommitTransactionsBreak
    \/ \E known \in BOOLEAN : Finalize(known)
    \/ WaitForTransactions
    \/ \E signErr \in BOOLEAN : SealBlock(signErr)
    \/ \E writeErr \in BOOLEAN : ProcessWork(writeErr)
    \/ EndCycle
    \/ \E time \in 1..MaxClock, signer \in {1, 2} :
          InsertBlock([Number |-> CurrentBlock(chain).Number + 1, Time |-> time,
                       ParentHash |-> Hash(CurrentBlock(chain)),
                       Signed |-> TRUE, Signer |-> signer])
    \/ Tick

SpecProducer == InitProducer /\ [][NextProducer]_vars

\* The block producer on an engine that is authorized anew at any time.
NextAuthorize ==
    \/ NextProducer
    \/ \E signer \in Accounts : Authorize(signer)

SpecAuthorize == InitProducer /\ [][NextAuthorize]_vars

-----------------------------------------------------------------------------
(* The delegate diff on its own *)

\* The delegate arrays: up to MaxDelegates witnesses, none twice.
DiffWitnesses == {[Id |-> a, Stake |-> 1, Flags |-> ElectEnabledFlag] : a \in {1, 2, 3}}

WitnessArrays ==
    {w \in UNION {[1..n -> DiffWitnesses] : n \in 0..MaxDelegates} :
        \A i, j \in 1..Len(w) : i # j => w[i].Id # w[j].Id}

InitDiff ==
    /\ witnesses = [a \in {GenesisWitness} |-> [Stake |-> 0, Flags |-> ElectEnabledFlag]]
    /\ staked = <<>>
    /\ claimable = <<>>
    /\ delegations = {}
    /\ systemStake = <<>>
    /\ balance = GenesisBalance
    /\ now = GenesisTime
    /\ number = 1
    /\ last = NoCall
    /\ config = DefaultConfig
    /\ keccak = 0
    /\ chain = {GenesisHeader}
    /\ clock = 0
    /\ \E old \in WitnessArrays, new \in WitnessArrays :
          eval = [op |-> "WitnessArray", old |-> old, new |-> new]
    /\ worker = NoWorker
    /\ txs = NoTxs
    /\ tx = NoTx
    /\ emitted = <<>>

\* FinalizeAndAssemble takes the diff of the delegates before and after.
CallDiff ==
    /\ eval.op = "WitnessArray"
    /\ eval' = [op |-> "Diff", old |-> eval.old, new |-> eval.new,
                diff |-> Diff(eval.old, eval.new)]
    /\ UNCHANGED <<contractVars, engineVars, producerVars>>

NextDiff == CallDiff

SpecDiff == InitDiff /\ [][NextDiff]_vars

-----------------------------------------------------------------------------
(* The sampler of the bonus delegate on its own *)

\* The bytes the hashes are made of.
RandomBytes == {0, 1, 36, 85, 128, 170, 219, 255}

InitRandom ==
    /\ witnesses = [a \in {GenesisWitness} |-> [Stake |-> 0, Flags |-> ElectEnabledFlag]]
    /\ staked = <<>>
    /\ claimable = <<>>
    /\ delegations = {}
    /\ systemStake = <<>>
    /\ balance = GenesisBalance
    /\ now = GenesisTime
    /\ number = 1
    /\ last = NoCall
    /\ config = DefaultConfig
    /\ keccak = 0
    /\ chain = {GenesisHeader}
    /\ clock = 0
    /\ \E max \in 1..MaxRandom, hash \in [1..HashLength -> RandomBytes] :
          eval = [op |-> "hash", max |-> max, hash |-> hash]
    /\ worker = NoWorker
    /\ txs = NoTxs
    /\ tx = NoTx
    /\ emitted = <<>>

\* GetDelegates draws the index of the bonus delegate.
CallUniformRandom ==
    /\ eval.op = "hash"
    /\ eval' = [op |-> "uniformRandom", max |-> eval.max, hash |-> eval.hash,
                rand |-> uniformRandom(eval.max, eval.hash)]
    /\ UNCHANGED <<contractVars, engineVars, producerVars>>

NextRandom == CallUniformRandom

SpecRandom == InitRandom /\ [][NextRandom]_vars

-----------------------------------------------------------------------------
(* The DB contract called by two accounts *)

\* The names the callers use: none, two of which one begins with the other,
\* and the name of a table of the system contract.
DBNames == {<<>>, <<"T">>, <<"T", "U">>, StakedTable[2]}
\* The ABIs the callers hand in: the empty string, an ABI that describes the
\* tables T and TU, and one that describes a table Staked.
DBAbis == {{}, {<<"T">>, <<"T", "U">>}, {StakedTable[2]}}
\* The rows the callers insert.
DBObjects == {[Id |-> 1, Val |-> 1]}

\* The store after genesis and a stake of the first account.
InitDB ==
    /\ witnesses = [a \in {GenesisWitness} |-> [Stake |-> 0, Flags |-> ElectEnabledFlag]]
    /\ staked = <<>>
    /\ claimable = <<>>
    /\ delegations = {}
    /\ systemStake = <<>>
    /\ balance = GenesisBalance
    /\ now = GenesisTime
    /\ number = 1
    /\ last = NoCall
    /\ config = DefaultConfig
    /\ keccak = 0
    /\ chain = {GenesisHeader}
    /\ clock = 0
    /\ eval = [op |-> "genesis", from |-> 0, ret |-> 0, err |-> Nil,
               db |-> dbInsertObj(SystemContractSetupDB, StakedTable,
                                  [Id |-> 1, Amount |-> 1]).db]
    /\ worker = NoWorker
    /\ txs = NoTxs
    /\ tx = NoTx
    /\ emitted = <<>>

\* A call of the DB contract by an account.
dbContractCall(from, cmd, arg) ==
    /\ \E r \in {dbContractRun(eval.db, from, cmd, arg)} :
          eval' = [op |-> cmd, from |-> from, ret |-> r.ret, err |-> r.err, db |-> r.db]
    /\ UNCHANGED <<contractVars, engineVars, producerVars>>

NextDB ==
    \/ \E from \in Accounts, name \in DBNames, abi \in DBAbis :
          dbContractCall(from, "createTable", [TableName |-> name, Abi |-> abi])
    \/ \E from \in Accounts, name \in DBNames, obj \in DBObjects :
          dbContractCall(from, "insertObj", [TableName |-> name, Data |-> obj])
    \/ \E from \in Accounts, name \in DBNames, obj \in DBObjects :
          dbContractCall(from, "deleteObj", [TableName |-> name, Id |-> obj.Id])

SpecDB == InitDB /\ [][NextDB]_vars

-----------------------------------------------------------------------------
(* Properties *)

\* A call of command op has just been applied (an action-level test).
Called(op) == last = NoCall /\ last'.op = op

\* The call succeeded.
Succeeded(op) == Called(op) /\ last'.err = Nil

RECURSIVE SumStaked(_, _)
SumStaked(S, owners) ==
    IF owners = {} THEN 0
    ELSE LET o == CHOOSE x \in owners : TRUE
         IN S[o] + SumStaked(S, owners \ {o})

StakedAmount(S, owner) == IF owner \in DOMAIN S THEN S[owner] ELSE 0

\* The rows of the Claimable table an owner holds, and their total.
ClaimableOf(C, owner) == {id \in DOMAIN C : id[1] = owner}
ClaimableTotal(C, owner) == SumAmount(C, ClaimableOf(C, owner))

\* The tables of the store other than the native balances are as before.
TablesUnchanged == UNCHANGED <<witnesses, staked, claimable, delegations, systemStake>>

\* C1 (P1): in every reachable state the system stake scalar equals the sum
\* of the amounts of all rows of the Staked table.
C1_SystemStakeIsSumOfStaked ==
    SystemStaked(systemStake) = SumStaked(staked, DOMAIN staked)

\* Both accounts hold stake, and one of them has just taken part of its own out.
C1_Witness ==
    /\ last.op = "unstake" /\ last.err = Nil /\ last.amount = 1
    /\ DOMAIN staked = Accounts
    /\ SystemStaked(systemStake) >= 2

\* C2 (P2): the stake of every witness equals the sum of the staked amounts of
\* the owners that hold a delegation row to it.
C2_WitnessStakeIsSumOfDelegations ==
    \A w \in DOMAIN witnesses :
        witnesses[w].Stake =
            SumStaked(staked, {o \in DOMAIN staked : <<o, w>> \in delegations})

ClaimableCount(C, owner) == Cardinality(ClaimableOf(C, owner))

\* C3 as stated (P3): no owner ever holds more than 5 claimables; an unstake
\* by a caller that holds 5 returns TooManyClaimable and changes no table; a
\* caller that holds 4 or fewer is not refused with TooManyClaimable.
C3_Original ==
    [][ /\ \A o \in Accounts : ClaimableCount(claimable', o) <= 5
        /\ Called("unstake") =>
              LET n == ClaimableCount(claimable, last'.from)
              IN /\ n >= 5 => /\ last'.err = errUnstakeTooManyClaimable
                              /\ TablesUnchanged /\ UNCHANGED balance
                 /\ n <= 4 => last'.err # errUnstakeTooManyClaimable ]_vars

\* C3 as amended: the same, but a caller that holds 5 claimables, one of them
\* with the timestamp of the new entry (now + 259200), is refused with the
\* system contract error instead of TooManyClaimable; no table changes either way.
C3_AtMostFiveClaimables ==
    [][ /\ \A o \in Accounts : ClaimableCount(claimable', o) <= 5
        /\ Called("unstake") =>
              LET n == ClaimableCount(claimable, last'.from)
                  sameBlock == <<last'.from, now + 259200>> \in DOMAIN claimable
              IN /\ n >= 5 => /\ last'.err = IF sameBlock THEN errSystemContractError
                                             ELSE errUnstakeTooManyClaimable
                              /\ TablesUnchanged /\ UNCHANGED balance
                 /\ n <= 4 => last'.err # errUnstakeTooManyClaimable ]_vars

\* The sixth unstake of a caller that holds five claimables has been refused.
C3_Witness ==
    /\ last.op = "unstake" /\ last.err = errUnstakeTooManyClaimable
    /\ ClaimableCount(claimable, last.from) = 5

\* The caller's claimables that have matured at the time of the call, and
\* those that have not.
MaturedOf(C, owner, time) == {id \in ClaimableOf(C, owner) : C[id].Timestamp <= time}
OutstandingOf(C, owner, time) == ClaimableOf(C, owner) \ MaturedOf(C, owner, time)

\* C4: a stake whose residual (the amount less the credit from the caller's
\* outstanding claimables) exceeds the caller's balance / precisionFactor, the
\* balance being the one stake() tests (after the claim that precedes it),
\* returns NotEnoughBalance, and every table and every native balance is as
\* before the call.
C4_NotEnoughBalanceLeavesState ==
    [][ Called("stake") /\ last'.decoded =>
          LET c == last'.from
              total == SumAmount(claimable, OutstandingOf(claimable, c, now))
              credit == IF total < last'.amount THEN total ELSE last'.amount
              residual == last'.amount - credit
              tested == balance[c]
                          + SumAmount(claimable, MaturedOf(claimable, c, now)) * precisionFactor
          IN residual > tested \div precisionFactor =>
                /\ last'.err = errStakeNotEnoughBalance
                /\ TablesUnchanged /\ UNCHANGED balance ]_vars

\* A stake was refused for balance while the caller held a matured claimable,
\* which the claim preceding the stake had paid out: the row is in place again.
C4_Witness ==
    /\ last.op = "stake" /\ last.err = errStakeNotEnoughBalance
    /\ MaturedOf(claimable, last.from, now) # {}

\* C5: a claim deletes exactly the caller's rows with timestamp <= now, moves
\* exactly the sum of their amounts times precisionFactor from the system
\* contract to the caller, leaves every other row and table as it was, and
\* succeeds also when nothing has matured; the row an unstake creates matures
\* 259200 seconds after the unstake.
C5_ClaimPaysMatured ==
    [][ /\ Called("claim") =>
              LET c == last'.from
                  matured == MaturedOf(claimable, c, now)
                  paid == SumAmount(claimable, matured) * precisionFactor
              IN /\ last'.err = Nil
                 /\ DOMAIN claimable' = DOMAIN claimable \ matured
                 /\ \A id \in DOMAIN claimable' : claimable'[id] = claimable[id]
                 /\ balance' = [balance EXCEPT ![c] = @ + paid,
                                               ![PrecompliledSystemContract] = @ - paid]
                 /\ last'.claimed = paid
                 /\ UNCHANGED <<witnesses, staked, delegations, systemStake>>
        /\ Succeeded("unstake") =>
              /\ <<last'.from, now + 259200>> \in DOMAIN claimable'
              /\ claimable'[<<last'.from, now + 259200>>].Timestamp = now + 259200
              /\ UNCHANGED balance ]_vars

\* A claim has paid out a matured row while a row that has not matured stays.
C5_Witness ==
    /\ last.op = "claim" /\ last.err = Nil /\ last.claimed > 0
    /\ OutstandingOf(claimable, last.from, now) # {}

\* C6: a successful unstake(amount) takes exactly amount off the system stake,
\* inserts exactly one Claimable row (id caller||ts, the amount, timestamp
\* now + 259200), and takes amount off the caller's Staked row, which is
\* deleted exactly when nothing is left.
C6_UnstakeEffects ==
    [][ Succeeded("unstake") =>
          LET c == last'.from
              amt == last'.amount
              old == StakedAmount(staked, c)
              id == <<c, now + 259200>>
          IN /\ c \in DOMAIN staked /\ amt <= old
             /\ SystemStaked(systemStake') = SystemStaked(systemStake) - amt
             /\ id \notin DOMAIN claimable
             /\ DOMAIN claimable' = DOMAIN claimable \cup {id}
             /\ claimable'[id] = [Amount |-> amt, Timestamp |-> now + 259200]
             /\ \A k \in DOMAIN claimable : claimable'[k] = claimable[k]
             /\ DOMAIN staked' = IF amt = old THEN DOMAIN staked \ {c} ELSE DOMAIN staked
             /\ amt < old => staked'[c] = old - amt
             /\ \A o \in DOMAIN staked' \ {c} : staked'[o] = staked[o] ]_vars

\* A caller has taken its whole stake out, while the other account holds stake.
C6_Witness ==
    /\ last.op = "unstake" /\ last.err = Nil /\ last.amount > 0
    /\ last.from \notin DOMAIN staked
    /\ DOMAIN staked # {}

\* C7: in a successful stake(amount) the wei moved from the caller to the
\* system contract is (amount - credit) * precisionFactor, credit being what
\* the caller's outstanding claimables lose (rows deleted, at most one
\* decremented, none raised); nothing is moved when they cover the amount.
C7_StakeTransfersResidual ==
    [][ Succeeded("stake") =>
          LET c == last'.from
              amt == last'.amount
              outstanding == OutstandingOf(claimable, c, now)
              after == ClaimableOf(claimable', c)
              credit == SumAmount(claimable, outstanding) - SumAmount(claimable', after)
              paid == SumAmount(claimable, MaturedOf(claimable, c, now)) * precisionFactor
          IN /\ after \subseteq outstanding
             /\ \A id \in after : /\ claimable'[id].Amount <= claimable[id].Amount
                                  /\ claimable'[id].Timestamp = claimable[id].Timestamp
             /\ Cardinality({id \in after : claimable'[id].Amount < claimable[id].Amount}) <= 1
             /\ credit >= 0 /\ credit <= amt
             /\ last'.transferred = (amt - credit) * precisionFactor
             /\ balance' = [balance EXCEPT
                              ![c] = @ + paid - last'.transferred,
                              ![PrecompliledSystemContract] = @ - paid + last'.transferred]
             /\ SumAmount(claimable, outstanding) >= amt => last'.transferred = 0 ]_vars

\* A stake was paid for entirely by the caller's claimables, one of which was
\* decremented and stays.
C7_Witness ==
    /\ last.op = "stake" /\ last.err = Nil /\ last.amount > 0 /\ last.transferred = 0
    /\ \E id \in ClaimableOf(claimable, last.from) : claimable[id].Amount > 0

\* The stake state: the Staked table, the system stake and the witnesses'
\* stakes with the delegations behind them.
StakeStateUnchanged == UNCHANGED <<witnesses, staked, delegations, systemStake>>

C9_Original ==
    (/\ last.op = "vote" /\ last.decoded /\ last.from \in DOMAIN staked
     /\ \E i \in 1..Len(last.addresses) : last.addresses[i] \notin DOMAIN witnesses)
        => last.err = errVoteAddressIsNotWitness

\* C10: after a successful vote for distinct witnesses the caller's
\* delegations are exactly the addresses voted; every witness the caller had
\* delegated to loses the caller's staked amount and every witness voted
\* gains it; nothing else of a witness row changes.
C10_VoteRedelegates ==
    [][ ( /\ Succeeded("vote")
          /\ Cardinality({last'.addresses[i] : i \in 1..Len(last'.addresses)})
                = Len(last'.addresses) ) =>
          LET c == last'.from
              voted == {last'.addresses[i] : i \in 1..Len(last'.addresses)}
              amt == StakedAmount(staked, c)
          IN /\ c \in DOMAIN staked
             /\ voted \subseteq DOMAIN witnesses
             /\ delegations' = {d \in delegations : d[1] # c} \cup {<<c, a>> : a \in voted}
             /\ DOMAIN witnesses' = DOMAIN witnesses
             /\ \A w \in DOMAIN witnesses :
                   /\ witnesses'[w].Stake =
                         witnesses[w].Stake
                           - (IF <<c, w>> \in delegations THEN amt ELSE 0)
                           + (IF w \in voted THEN amt ELSE 0)
                   /\ witnesses'[w].Flags = witnesses[w].Flags
             /\ UNCHANGED <<staked, systemStake, claimable, balance>> ]_vars

\* A caller with stake has voted for two witnesses, one of which the other
\* account delegates to as well.
C10_Witness ==
    /\ last.op = "vote" /\ last.err = Nil /\ last.addresses = <<1, 2>>
    /\ StakedAmount(staked, last.from) > 0
    /\ \E d \in delegations : d[1] # last.from /\ StakedAmount(staked, d[1]) > 0

\* The witnesses an owner holds a delegation row to.
DelegatedBy(D, owner) == {d[2] : d \in {x \in D : x[1] = owner}}

\* C11: after an unvote call by a caller that has delegations, the caller has
\* no Delegation row and every witness it had delegated to has lost the
\* caller's staked amount (0 when the caller has no Staked row); this whether
\* or not the caller still holds stake.
C11_Original ==
    [][ (Called("unvote") /\ DelegatedBy(delegations, last'.from) # {}) =>
          /\ DelegatedBy(delegations', last'.from) = {}
          /\ \A w \in DelegatedBy(delegations, last'.from) :
                 witnesses'[w].Stake =
                     witnesses[w].Stake - StakedAmount(staked, last'.from) ]_vars

\* C12: electEnable(enable) by a caller sets bit 0 of the flags of the
\* caller's Witness row when enable is true and clears it when false, leaving
\* the other bits; an absent row is created with stake 0 and flags 0 first;
\* the row's stake, every other Witness row, Staked, Claimable, Delegation,
\* SystemStake and the balances stay as they were.
C12_ElectEnableFrame ==
    [][ (Called("electEnable") /\ last'.decoded) =>
          LET c == last'.from
              before == IF c \in DOMAIN witnesses THEN witnesses[c]
                        ELSE [Stake |-> 0, Flags |-> 0]
          IN /\ last'.err = Nil
             /\ DOMAIN witnesses' = DOMAIN witnesses \cup {c}
             /\ witnesses'[c].Stake = before.Stake
             /\ witnesses'[c].Flags % 2 = (IF last'.enable THEN 1 ELSE 0)
             /\ witnesses'[c].Flags \div 2 = before.Flags \div 2
             /\ \A w \in DOMAIN witnesses \ {c} : witnesses'[w] = witnesses[w]
             /\ UNCHANGED <<staked, claimable, delegations, systemStake, balance>> ]_vars

\* A witness that others have voted for has just disabled itself, and an
\* account without a row has been made a (disabled) witness.
C12_Witness ==
    /\ last.op = "electEnable" /\ last.err = Nil /\ ~last.enable
    /\ witnesses[last.from].Stake > 0 /\ witnesses[last.from].Flags = 0
    /\ \E w \in DOMAIN witnesses \ {last.from} : witnesses[w].Stake > 0

\* The addresses of a list of witness rows.
Ids(rows) == [i \in 1..Len(rows) |-> rows[i].Id]

\* C13 (P4): whatever the witness table and the configuration, a list that
\* GetDelegates returns holds only rows of witnesses whose elect-enabled flag
\* (bit 0) is set, and at most DelegateCount (n_main) of them.
C13_DelegatesEnabledAndBounded ==
    (eval.op = "GetDelegates" /\ ~eval.result.panic) =>
        /\ Len(eval.result.value) <= config.DelegateCount
        /\ \A i \in 1..Len(eval.result.value) :
              /\ eval.result.value[i].Id \in DOMAIN witnesses
              /\ witnesses[eval.result.value[i].Id].Flags % 2 = 1
              /\ eval.result.value[i].Flags % 2 = 1

\* Two delegates were returned with a bonus delegate configured, past a
\* witness of the highest stake that is not elect-enabled.
C13_Witness ==
    /\ eval.op = "GetDelegates" /\ ~eval.result.panic
    /\ config.DelegateCount = 2 /\ config.BonusDelegateCount = 1
    /\ Len(eval.result.value) = 2
    /\ \E w \in DOMAIN witnesses :
          /\ witnesses[w].Flags % 2 = 0
          /\ \A i \in 1..2 : witnesses[w].Stake >= eval.result.value[i].Stake

\* The elect-enabled witnesses of a table.
Enabled(W) == {w \in DOMAIN W : W[w].Flags % 2 = 1}

Candidates ==
    DelegateVotingGetDelegates(witnesses, config.DelegateCount + config.BonusDelegateCount)

\* C15: the candidates are elect-enabled witnesses in descending stake order,
\* as many as there are up to n_main + n_bonus, no witness left out having more
\* stake than one taken.  When they number at most n_main, a list GetDelegates
\* returns is the candidates verbatim; otherwise it has exactly n_main
\* entries, the first n_main - 1 being the first n_main - 1 candidates in
\* order and the last being one of the candidates from place n_main on, and
\* no address is in it twice.
C15_DelegatesFromCandidates ==
    (eval.op = "GetDelegates" /\ ~eval.result.panic) =>
        LET n == config.DelegateCount
            c == Candidates
            r == eval.result.value
            most == n + config.BonusDelegateCount
        IN /\ Len(c) = IF Cardinality(Enabled(witnesses)) < most
                       THEN Cardinality(Enabled(witnesses)) ELSE most
           /\ \A i \in 1..Len(c) : c[i].Id \in Enabled(witnesses)
           /\ \A i, j \in 1..Len(c) : i < j => c[i].Stake >= c[j].Stake /\ c[i].Id # c[j].Id
           /\ \A w \in Enabled(witnesses) :
                 (\A i \in 1..Len(c) : c[i].Id # w) =>
                     \A i \in 1..Len(c) : c[i].Stake >= witnesses[w].Stake
           /\ IF Len(c) <= n THEN r = c
              ELSE /\ Len(r) = n
                   /\ \A i \in 1..(n - 1) : r[i] = c[i]
                   /\ \E j \in n..Len(c) : r[n] = c[j]
                   /\ \A i, j \in 1..n : i # j => r[i].Id # r[j].Id

\* Three candidates for two places: the second place went to the last
\* candidate, not to the one next in stake order.
C15_Witness ==
    /\ eval.op = "GetDelegates" /\ ~eval.result.panic
    /\ config.DelegateCount = 2 /\ Len(Candidates) = 3
    /\ eval.result.value[2] = Candidates[3]
    /\ Candidates[2].Stake > Candidates[3].Stake

\* C16: whenever DelegateCount (n_main) or TurnBlockCount is 0,
\* getSignerAtSlot returns the zero address, for every witness table and every
\* slot, and does not fail.
C16_Original ==
    (/\ eval.op = "getSignerAtSlot"
     /\ config.DelegateCount = 0 \/ config.TurnBlockCount = 0) =>
        eval.result = Returned(0)

\* C17: with DelegateCount (n_main) 0, GetDelegates returns the empty list,
\* for every witness table and every BonusDelegateCount.
C17_Original ==
    (eval.op = "GetDelegates" /\ config.DelegateCount = 0) =>
        eval.result = Returned(<<>>)

\* C18: with DelegateCount > 0 and TurnBlockCount > 0, getSignerAtSlot for a
\* whole slot number returns the delegate at place
\* floor(slot / TurnBlockCount) mod DelegateCount of the list GetDelegates
\* returns for the header when the list has that place, and the zero address
\* when it has not; so the slots of one turn give the same place.
C18_SignerAtSlot ==
    (/\ eval.op = "getSignerAtSlot" /\ eval.slot.den = 1
     /\ config.DelegateCount > 0 /\ config.TurnBlockCount > 0) =>
        LET delegates == GetDelegates(eval.header, witnesses, config.DelegateCount,
                                      config.BonusDelegateCount, config.TurnBlockCount,
                                      keccak).value
            turn == eval.slot.num \div config.TurnBlockCount
            s == turn % config.DelegateCount
        IN /\ ~eval.result.panic
           /\ eval.result.value = IF s < Len(delegates) THEN delegates[s + 1].Id ELSE 0
           /\ \A n \in (turn * config.TurnBlockCount)..((turn + 1) * config.TurnBlockCount - 1) :
                 (n \div config.TurnBlockCount) % config.DelegateCount = s

\* The second slot of the second turn of two slots: the second delegate signs.
C18_Witness ==
    /\ eval.op = "getSignerAtSlot" /\ eval.slot = Slot(3, 1)
    /\ config.DelegateCount = 2 /\ config.TurnBlockCount = 2
    /\ ~eval.result.panic /\ eval.result.value # 0
    /\ \E w \in Enabled(witnesses) : w # eval.result.value

\* The headers of the chain a header names as its parent.
ParentsOf(store, h) == {p \in store : Hash(p) = h.ParentHash /\ p.Number = h.Number - 1}

\* The headers of the chain from the parent of a header back to the first.
RECURSIVE AncestorsOf(_, _)
AncestorsOf(store, h) ==
    IF h.Number = 0
    THEN {}
    ELSE ParentsOf(store, h) \cup UNION {AncestorsOf(store, p) : p \in ParentsOf(store, h)}

\* A header has just been verified.
Verified == eval.op = "none" /\ eval'.op = "verify"

\* C19: verification lets a header with number > 0 through its three tests
\* only if the chain holds its parent, with the number before its own and the
\* hash it names, its time is not after the clock, and its parent's time plus
\* the period is not after its time; a header failing one of them is refused
\* with ErrUnknownAncestor, ErrFutureBlock or ErrInvalidTimestamp, each only
\* for a header that fails the test of that name.  So every header of the
\* chain but the first is later than each of its ancestors and in a later
\* slot.
C19_HeaderVerification ==
    [][ /\ (Verified /\ eval'.header.Number > 0) =>
              LET h == eval'.header
                  err == eval'.result.value
                  parents == ParentsOf(chain, h)
                  future == h.Time > clock
                  early == \E p \in parents : p.Time + config.Period > h.Time
                  ok == parents # {} /\ ~future /\ ~early
              IN /\ err = ErrUnknownAncestor => parents = {}
                 /\ err = ErrFutureBlock => future
                 /\ err = ErrInvalidTimestamp => early
                 /\ ok <=> err \notin {ErrUnknownAncestor, ErrFutureBlock, ErrInvalidTimestamp}
                 /\ err = Nil => ok /\ h \in chain'
        /\ \A h \in chain' :
              h.Number > 0 =>
                 /\ ParentsOf(chain', h) # {}
                 /\ \A p \in AncestorsOf(chain', h) :
                       /\ p.Time < h.Time
                       /\ p.Time \div config.Period < h.Time \div config.Period ]_vars

\* A second block has been accepted on top of the first, under a period of
\* two seconds.
C19_Witness ==
    /\ eval.op = "verify" /\ eval.result.value = Nil
    /\ eval.header.Number = 2 /\ eval.header \in chain
    /\ config.Period = 2

C29_DelegateItemRoundTrip ==
    eval.op = "DecodeRLP" =>
        /\ eval.result.err = Nil /\ ~eval.result.panic
        /\ eval.result.item.Pos = eval.item.Pos
        /\ eval.result.item.DelegateAddress = eval.item.DelegateAddress
        /\ eval.item.DelegateAddress = ZeroAddress =>
              eval.result.item.DelegateNumber = eval.item.DelegateNumber

\* An item naming an address that ends in a zero byte, at the position 255,
\* went through.
C29_Witness ==
    /\ eval.op = "DecodeRLP"
    /\ eval.item.Pos = 255
    /\ eval.item.DelegateAddress[1] = 1 /\ eval.item.DelegateAddress[AddressLength] = 0
    /\ eval.result.item = eval.item

\* The first nonce, counting from 0, whose hash is below targetInt.
FirstNonce(seed, targetInt) ==
    CHOOSE n \in 0..Len(PowTable) :
        /\ PowHash(seed, n) < targetInt
        /\ \A m \in 0..(n - 1) : PowHash(seed, m) >= targetInt

\* C30 (P7): once CalculateWorkNonce has returned for a target of at least
\* one, the work nonce of the transaction is the first nonce whose hash is
\* below targetInt, and the difficulty the transaction reports is the one of
\* that work nonce and is not below the target, whether or not the difficulty
\* was asked for before the search.
C30_Original ==
    (tx.target # <<>> /\ ~Lt(tx.target[1], Quo(1, 1))) =>
        /\ tx.WorkNonce = FirstNonce(tx.seed, TargetInt(tx.target[1]))
        /\ CalculateDifficulty(tx).value = Quo(two256, PowHash(tx.seed, tx.WorkNonce))
        /\ ~Lt(CalculateDifficulty(tx).value, tx.target[1])

\* The transactions Peek has returned so far, the one it returns now
\* included, with what removed each.
Peeked == Emitted("")

\* C24 (P8): of two transactions of one sender that Peek returned, the one
\* returned later has the higher nonce, whatever their difficulties.
C24_NonceAscendingPerSender ==
    \A i \in 1..Len(Peeked), j \in 1..Len(Peeked) :
        (i < j /\ Peeked[i].tx.from = Peeked[j].tx.from) =>
            Peeked[i].tx.nonce < Peeked[j].tx.nonce

\* The second transaction of an account, of a higher difficulty than its
\* first, is returned after another account's transaction came in between.
C24_Witness ==
    /\ Len(emitted) >= 2 /\ Peek(txs) # <<>>
    /\ Peek(txs)[1].from = emitted[1].tx.from
    /\ Peek(txs)[1].difficulty > emitted[1].tx.difficulty
    /\ emitted[2].tx.from # emitted[1].tx.from

\* The virtual difficulty of the head i on the working snapshot as it is.
HeadDifficulty(i) ==
    VirtualDifficulty(txs.heads[i].tx, txs.heads[i].from, Snapshot(staked, systemStake))

\* C25: as long as a head is left, no head has a greater virtual difficulty,
\* on the snapshot as it is now, than the head Peek returns; also after
\* stake and unstake transactions were applied to the snapshot.
C25_PeekIsMaximal ==
    (~txs.panic /\ Len(txs.heads) > 0) =>
        \A i \in 1..Len(txs.heads) : ~CmpGreater(HeadDifficulty(i), HeadDifficulty(1))

\* Stake transactions have changed the snapshot since the set was built,
\* and three heads are left.
C25_Witness ==
    /\ Len(txs.heads) >= 3
    /\ systemStake # <<4>>
    /\ \E a \in DOMAIN staked : staked[a] = 3

\* C26: no transaction is returned by Peek twice, and once Pop has removed
\* a transaction no transaction of its sender is returned.
C26_EmittedOnce ==
    \A i \in 1..Len(Peeked), j \in 1..Len(Peeked) :
        i < j =>
            /\ Peeked[i].tx # Peeked[j].tx
            /\ Peeked[i].by = "Pop" => Peeked[j].tx.from # Peeked[i].tx.from

\* Pop removed the first transaction of an account that had a second one,
\* and the transactions of other accounts were returned since.
C26_Witness ==
    /\ Len(emitted) >= 3
    /\ emitted[1].by = "Pop"
    /\ emitted[1].tx.from \in {1, 2}
    /\ Len(txs.txs[emitted[1].tx.from]) = 1

-----------------------------------------------------------------------------
(* The sealing loop *)

\* The slot of a time: floor(time / period).
SlotOf(time) == time \div config.Period

\* The configured signer, as Prepare read it, is the one in turn at the whole
\* slot of the clock, looked up for the head.
InTurnNow ==
    getSignerAtSlot(config, CurrentBlock(chain), witnesses, Slot(SlotOf(clock), 1), keccak)
        = Returned(worker.prepareSigner)

\* C21: an iteration of Prepare returns a header only when the slot of the
\* clock is after the slot of the head and the configured signer is in turn at
\* that slot; the header has the hash of the head as parent hash, the number
\* of the head plus one and the time now_slot * period; every other iteration
\* waits until the next slot boundary, (now_slot + 1) * period.
C21_Original ==
    [][worker.pc = "Prepare" /\ worker'.pc \in {"makeCurrent", "select"} =>
          IF worker'.pc = "makeCurrent"
          THEN /\ SlotOf(clock) > SlotOf(CurrentBlock(chain).Time)
               /\ InTurnNow
               /\ worker'.parent = <<CurrentBlock(chain)>>
               /\ worker'.header =
                     <<[Number |-> CurrentBlock(chain).Number + 1,
                        Time |-> SlotOf(clock) * config.Period,
                        ParentHash |-> Hash(CurrentBlock(chain)),
                        Signed |-> FALSE, Signer |-> 0]>>
          ELSE /\ ~(SlotOf(clock) > SlotOf(CurrentBlock(chain).Time) /\ InTurnNow)
               /\ worker'.until = (SlotOf(clock) + 1) * config.Period]_vars

\* C22: when the stop signal is taken by the select of Prepare, Prepare
\* returns ErrProductionAborted, which ends the cycle: no header and no
\* parent block are returned, nothing of a block is built, no snapshot handle
\* is held, and the chain and the contract state are as they were.
C22_AbortWhileWaiting ==
    [][worker.pc = "select" /\ worker.woke = "stop" /\ worker'.pc # "select" =>
          /\ worker'.pc = "done"
          /\ worker'.err = ErrProductionAborted
          /\ worker'.header = <<>> /\ worker'.parent = <<>>
          /\ worker'.state = ParentState
          /\ worker'.txs = <<>> /\ worker'.receipts = <<>> /\ worker'.block = <<>>
          /\ worker'.open = {} /\ ~worker'.misuse
          /\ chain' = chain
          /\ UNCHANGED contractVars]_vars

\* A cycle ended by the stop signal.
C22_Witness == worker.pc = "done" /\ worker.err = ErrProductionAborted

-----------------------------------------------------------------------------
(* The production cycle *)

\* C23: no block without transactions is assembled, signed or written: when
\* the cycle took no transaction, FinalizeAndAssemble waits to a time in the
\* next slot and returns ErrWaitForTransactions, without a reward in the
\* account state and without a change of the chain.
C23_NoEmptyBlock ==
    [][/\ worker'.block # <<>> => Len(worker'.block[1].txs) > 0
       /\ worker.pc = "FinalizeAndAssemble" /\ Len(worker.txs) = 0
          /\ worker'.pc # "FinalizeAndAssemble" =>
             /\ worker'.pc = "waitForTransactions"
             /\ SlotOf(worker'.until) = SlotOf(clock) + 1
             /\ worker'.block = <<>>
             /\ worker'.state.reward = worker.state.reward
             /\ chain' = chain
       /\ worker.pc = "waitForTransactions" /\ worker'.pc # "waitForTransactions" =>
             /\ worker'.pc = "done"
             /\ worker'.err = ErrWaitForTransactions
             /\ clock >= worker.until
             /\ worker'.block = <<>>
             /\ worker'.state.reward = 0
             /\ chain' = chain
       /\ worker.pc \in {"Seal", "processWork"} => Len(worker.block[1].txs) > 0]_vars

\* A cycle without transactions has ended.
C23_Witness ==
    /\ worker.pc = "done" /\ worker.err = ErrWaitForTransactions
    /\ worker.tcount = 0

\* C27: at the end of a production cycle every snapshot handle taken in it has
\* been released, and none was released twice or taken twice.
C27_Original == worker.pc = "done" => worker.open = {} /\ ~worker.misuse

\* C28: a transaction whose application returns an error leaves the working
\* snapshot, the account state, the transaction list and the receipt list of
\* the cycle as they were; a transaction applied without error is appended
\* to the list, and its receipt to the receipts.
C28_FailedTransactionInvisible ==
    [][worker.pc = "commitTransactions" /\ txs' # txs =>
          IF worker'.applyErr # Nil
          THEN /\ worker'.state = worker.state
               /\ worker'.ebakusState = worker.ebakusState
               /\ worker'.txs = worker.txs
               /\ worker'.receipts = worker.receipts
          ELSE /\ worker'.txs = Append(worker.txs, Peek(txs)[1])
               /\ Len(worker'.receipts) = Len(worker.receipts) + 1
               /\ worker'.receipts[Len(worker'.receipts)].tx = Peek(txs)[1]
               /\ worker'.state.applied = Append(worker.state.applied, Peek(txs)[1])
               /\ worker'.state.partial = {}]_vars

\* A transaction failed after another one was taken into the block.
C28_Witness ==
    /\ worker.pc = "commitTransactions"
    /\ worker.applyErr # Nil
    /\ Len(worker.txs) = 1

\* The senders of the heads of a transaction set.
HeadSenders(t) == {t.heads[i].tx.from : i \in 1..Len(t.heads)}

\* The transactions at the heads of a transaction set.
HeadTxs(t) == {t.heads[i].tx : i \in 1..Len(t.heads)}

\* After a Shift the next transaction of the sender of tx is a head, when the
\* sender had one, and no transaction of the sender otherwise.
ShiftedFrom(before, after, t) ==
    IF Len(before.txs[t.from]) > 0
    THEN Head(before.txs[t.from]) \in HeadTxs(after)
    ELSE t.from \notin HeadSenders(after)

\* C31: in the packing loop ErrGasLimitReached and ErrNonceTooHigh pop the
\* sender of the head transaction, after which no transaction of that sender
\* is offered in the cycle; ErrNonceTooLow and every other error shift to the
\* sender's next transaction without appending; success appends the
\* transaction and its receipt, counts it and shifts.  The transactions of
\* the block are, per sender, in strictly ascending nonce order.
C31_PackingOrder ==
    [][worker.pc = "commitTransactions" /\ txs' # txs =>
          /\ HeadSenders(txs') \subseteq HeadSenders(txs)
          /\ IF worker'.applyErr \in {ErrGasLimitReached, ErrNonceTooHigh}
             THEN /\ Peek(txs)[1].from \notin HeadSenders(txs')
                  /\ worker'.txs = worker.txs /\ worker'.receipts = worker.receipts
                  /\ worker'.tcount = worker.tcount
             ELSE IF worker'.applyErr # Nil
             THEN /\ ShiftedFrom(txs, txs', Peek(txs)[1])
                  /\ worker'.txs = worker.txs /\ worker'.receipts = worker.receipts
                  /\ worker'.tcount = worker.tcount
             ELSE /\ ShiftedFrom(txs, txs', Peek(txs)[1])
                  /\ worker'.txs = Append(worker.txs, Peek(txs)[1])
                  /\ worker'.receipts =
                        Append(worker.receipts, [tx |-> Peek(txs)[1], status |-> 1])
                  /\ worker'.tcount = worker.tcount + 1
          /\ \A i, j \in 1..Len(worker'.txs) :
                i < j /\ worker'.txs[i].from = worker'.txs[j].from
                   => worker'.txs[i].nonce < worker'.txs[j].nonce]_vars

\* A sender was popped on an error while a transaction of it was left, and a
\* transaction of another sender is in the block.
C31_Witness ==
    /\ worker.pc = "commitTransactions"
    /\ worker.applyErr \in {ErrGasLimitReached, ErrNonceTooHigh}
    /\ Len(worker.txs) = 1
    /\ \E s \in DOMAIN txs.txs : Len(txs.txs[s]) > 0 /\ s \notin HeadSenders(txs)

-----------------------------------------------------------------------------
(* The delegate diff *)

\* C32: the diff of the old and the new delegates determines the new array
\* given the old one: no other duplicate-free array has the same diff with
\* the old array, and the diff is empty exactly when the new array equals
\* the old one, also when the arrays differ in length.
C32_Original ==
    eval.op = "Diff" =>
        /\ \A other \in WitnessArrays : Diff(eval.old, other) = eval.diff => other = eval.new
        /\ eval.diff = <<>> <=> eval.new = eval.old

-----------------------------------------------------------------------------
(* The sampler of the bonus delegate *)

\* The window of bitsRequired bits of the hash that starts at the bit
\* startBit, the bytes of the hash taken round and round.
Window(hash, startBit, bitsRequired) ==
    LET bit(n) == (hash[((n \div 8) % HashLength) + 1] \div (2 ^ (n % 8))) % 2
        RECURSIVE sum(_)
        sum(i) == IF i >= bitsRequired THEN 0 ELSE bit(startBit + i) * 2 ^ i + sum(i + 1)
    IN sum(0)

\* The start bits whose window is below max, up to the first start bit past
\* the end of the hash.
Accepted(max, hash) ==
    {s \in 0..(8 * HashLength) : Window(hash, s, Len64(max - 1)) < max}

\* C33: for every max >= 1 and every hash the sampler returns a value from 0
\* to max - 1: the value of the first window below max, or the value of the
\* window that starts past the end of the hash modulo max when no window up
\* to there is below max; for max = 1 the window has no bit and the value is 0.
C33_UniformRandomInRange ==
    eval.op = "uniformRandom" =>
        /\ eval.rand >= 0 /\ eval.rand < eval.max
        /\ IF Accepted(eval.max, eval.hash) # {}
           THEN eval.rand =
                   Window(eval.hash,
                          CHOOSE s \in Accepted(eval.max, eval.hash) :
                              \A u \in Accepted(eval.max, eval.hash) : s <= u,
                          Len64(eval.max - 1))
           ELSE eval.rand =
                   Window(eval.hash, 8 * HashLength, Len64(eval.max - 1)) % eval.max
        /\ eval.max = 1 => Len64(eval.max - 1) = 0 /\ eval.rand = 0

\* The sampler ran past the end of the hash and took the remainder.
C33_Witness ==
    /\ eval.op = "uniformRandom"
    /\ Accepted(eval.max, eval.hash) = {}

-----------------------------------------------------------------------------
(* Stake changes and delegations *)

\* C34: a successful stake or unstake leaves the Delegation rows as they
\* were, changes the stake of every witness the caller delegates to by
\* exactly the change of the caller's staked amount, and leaves the stake of
\* every other witness as it was.
C34_StakeKeepsDelegations ==
    [][ Succeeded("stake") \/ Succeeded("unstake") =>
          /\ delegations' = delegations
          /\ DOMAIN witnesses' = DOMAIN witnesses
          /\ \A w \in DOMAIN witnesses :
                /\ witnesses'[w].Flags = witnesses[w].Flags
                /\ witnesses'[w].Stake =
                      IF w \in DelegatedBy(delegations, last'.from)
                      THEN witnesses[w].Stake + StakedAmount(staked', last'.from)
                              - StakedAmount(staked, last'.from)
                      ELSE witnesses[w].Stake ]_vars

\* A caller that delegates to a witness, as the other account does, has
\* changed its stake.
C34_Witness ==
    /\ last.op \in {"stake", "unstake"} /\ last.err = Nil /\ last.amount > 0
    /\ DelegatedBy(delegations, last.from) # {}
    /\ \E d \in delegations : d[1] # last.from /\ d[2] \in DelegatedBy(delegations, last.from)
    /\ \E w \in DOMAIN witnesses : w \notin DelegatedBy(delegations, last.from)

-----------------------------------------------------------------------------
(* Determinism of the ordering *)

\* The pending map a transaction set was built of, before anything is taken
\* from it: for every account its head and then its list.
BuiltFrom(t) ==
    [from \in DOMAIN t.txs |->
        <<t.heads[CHOOSE i \in 1..Len(t.heads) : t.heads[i].from = from].tx>>
            \o t.txs[from]]

\* C35: a transaction set built again from the same pending map on the same
\* snapshot returns from Peek the transaction this one returns, whatever the
\* order the accounts of the map are ranged over.
C35_Original ==
    emitted = <<>> =>
        \A order \in Permutations(HeapSenders) :
            Peek(NewTransactionsByVirtualDifficultyAndNonce(
                     BuiltFrom(txs), order, Snapshot(staked, systemStake))) = Peek(txs)

-----------------------------------------------------------------------------
(* Conservation of the staked tokens *)

-----------------------------------------------------------------------------
(* Stopping the worker *)

\* C37: worker.stop() returns only after the goroutine of the block producer
\* has exited, whatever the interleaving of stop() with start() and with the
\* producer loop.
C37_Original == worker.stopper = "returned" => worker.pc = "exited"

\* C38: a header Prepare returned is at least a period after its parent, as
\* verifyHeader asks, and its time is the start of a slot, for every period.
C38_Original ==
    worker.header # <<>> =>
        /\ worker.parent[1].Time + config.Period <= worker.header[1].Time
        /\ worker.header[1].Time % config.Period = 0

\* C39: the address that signs the block in Seal is the signer that Prepare
\* found to be in turn for the block's slot, also when Authorize is called
\* between Prepare and Seal of the cycle.
C39_Original ==
    worker.pc = "processWork" =>
        worker.block[1].header.Signer = worker.prepareSigner

-----------------------------------------------------------------------------
(* The DB contract *)

\* The tables of the two stores of a step.
StepTables == DOMAIN eval.db \cup DOMAIN eval'.db

\* A table is in the store before and after the step with the same rows.
TableKept(t) ==
    /\ t \in DOMAIN eval.db /\ t \in DOMAIN eval'.db
    /\ eval'.db[t] = eval.db[t]

\* C40 as stated: a call of the DB contract by an account creates and
\* changes tables of the namespace of the caller only: every table of
\* another address, those of the system contract included, stays as it is.
C40_Original ==
    [][\A t \in StepTables : t[1] # eval'.from => TableKept(t)]_vars

\* C40: a call of the DB contract by an account leaves every table of
\* another address as it is, but for the ContractAbi table of the system
\* contract, where it leaves every row as it is whose id does not begin
\* with the address of the caller; so the Witnesses, Staked, Claimable and
\* Delegations tables and the tables of other callers never change.
C40_TableIsolation ==
    [][/\ \A t \in StepTables \ {ContractAbiTable} : t[1] # eval'.from => TableKept(t)
       /\ ContractAbiTable \in DOMAIN eval.db /\ ContractAbiTable \in DOMAIN eval'.db
       /\ \A id \in DOMAIN eval.db[ContractAbiTable] \cup DOMAIN eval'.db[ContractAbiTable] :
             id[1] # eval'.from =>
                /\ id \in DOMAIN eval.db[ContractAbiTable]
                /\ id \in DOMAIN eval'.db[ContractAbiTable]
                /\ eval'.db[ContractAbiTable][id] = eval.db[ContractAbiTable][id]]_vars

\* The second account has put a row in its table T while the first account
\* has a table of the same name without a row.
C40_Witness ==
    /\ eval.op = "insertObj" /\ eval.from = 2 /\ eval.ret = 1
    /\ GetDBTableName(1, <<"T">>) \in DOMAIN eval.db
    /\ eval.db[GetDBTableName(1, <<"T">>)] = <<>>
    /\ GetDBTableName(2, <<"T">>) \in DOMAIN eval.db
    /\ 1 \in DOMAIN eval.db[GetDBTableName(2, <<"T">>)]

====
